---- MODULE Spec2Model ----
(***************************************************************************)
(* Pootle Sites: the local/cloud file mirror (src/utils/cloudSync.ts,      *)
(* src/utils/storage.ts), the delete handler of the site card and the      *)
(* sync scheduling of the Site page.                                       *)
(*                                                                         *)
(* SpecMirror : uploadSiteToCloud, downloadSiteFromCloud and the delete    *)
(*              handler, one awaited storage call per step, every call     *)
(*              free to succeed or fail.                                   *)
(* SpecSite   : the Site page: loadSite, initializeWordPress, the timers   *)
(*              (2 s initial sync, 5 s debounce, 30 s interval), the sync  *)
(*              runs they start, Retry and Back.  Time advances in ticks   *)
(*              of one second.                                             *)
(* SpecResync, SpecCreate, SpecLive, SpecFrame, SpecPolicy, SpecIds,       *)
(* SpecGone, SpecRename, SpecBoot, SpecLoads, SpecPaths and SpecTitle      *)
(* start the same actions, and a few of their own, from other states;      *)
(* each is introduced where it is defined.                                 *)
(***************************************************************************)
EXTENDS Integers, Sequences, FiniteSets, TLC

VARIABLES
  opfs,        \* [device -> [site -> [exists, tree]]] : the site's directory in OPFS
  localSites,  \* [device -> sequence of site ids]     : localStorage 'pootle-sites'
  rows,        \* cloud table public.sites, a function from the ids of the rows
  objects,     \* bucket wordpress-sites, a function from the keys of the objects
  entryOrder,  \* the order in which entries() yields the names of a directory
  up,          \* the run of uploadSiteToCloud
  down,        \* the run of downloadSiteFromCloud
  del,         \* the run of SiteCard.handleDelete
  \* ---- the Site page (React state and refs of the component)
  mounted,           \* the Site component is mounted
  site,              \* useState site: [loaded, isInitialized]
  isLoading,
  isInitializing,
  error,             \* useState error: "none" or the message
  playgroundClient,  \* a client is stored
  syncStatus,
  isBarHidden,
  loadPc,            \* where loadSite is: "idle", "sites", "download"
  initPc,            \* where initializeWordPress is: "idle", "starting", "retrying"
  debounceTimers,    \* seconds left of every pending debounce timeout
  syncDebounceRef,   \* seconds left of the timeout the ref names, -1: none pending
  initialSyncTimer,  \* seconds left of the 2 s timeout, -1: none
  syncInterval,      \* seconds left to the next interval callback, -1: none
  inflight,          \* sync runs in progress: [<<kind, position>> -> how many]
  hist,              \* what happened, for stating the properties
  \* ---- the Dashboard page and the requests that reach the cloud
  dash,              \* the Dashboard component: state, route, handleCreateSite
  req,               \* the last request to the cloud: who, what, the answer
  \* ---- the title update of the Site page (isTitleSyncing, updateSiteTitle)
  titleSync

mirrorVars == <<opfs, localSites, objects, entryOrder, up, down, del>>
pageVars == <<mounted, site, isLoading, isInitializing, error, playgroundClient,
              syncStatus, isBarHidden, loadPc, initPc>>
timerVars == <<debounceTimers, syncDebounceRef, initialSyncTimer, syncInterval>>
siteVars == <<pageVars, timerVars, inflight, hist>>
cloudVars == <<dash, req, titleSync>>
vars == <<mirrorVars, rows, siteVars, cloudVars>>

(***************************************************************************)
(* The universe of the file mirror.                                        *)
(***************************************************************************)
Devices == {"d1", "d2"}
Sites == {"s1"}
TheUser == "u1"
TheSite == "s1"

MANIFEST_NAME == "manifest.json"

\* Relative paths of a site directory: a name is one segment.
RelPaths == {<<"a">>, <<"b">>, <<"a", "c">>, <<MANIFEST_NAME>>}
NameOrder == <<"a", "b", "c", MANIFEST_NAME>>
Bytes == {"x", "y"}

\* What a file or a storage object holds.  The manifest is the JSON text of
\* {files, dirs}; any other content is bytes that do not parse to a manifest.
FileData(b) == [manifest |-> FALSE, bytes |-> b, files |-> <<>>, dirs |-> <<>>]
ManifestData(files, dirs) ==
  [manifest |-> TRUE, bytes |-> "", files |-> files, dirs |-> dirs]

DirEntry == [kind |-> "dir", data |-> FileData("")]
FileEntry(data) == [kind |-> "file", data |-> data]

Parent(p) == SubSeq(p, 1, Len(p) - 1)

IsPrefix(p, q) == Len(p) <= Len(q) /\ SubSeq(q, 1, Len(p)) = p

Put(f, k, v) == [x \in (DOMAIN f) \cup {k} |-> IF x = k THEN v ELSE f[x]]

Without(f, ks) == [x \in (DOMAIN f) \ ks |-> f[x]]

EmptyTree == [p \in {} |-> DirEntry]

\* A directory tree: every entry below the top has a directory as its parent.
WellFormed(t) ==
  \A p \in DOMAIN t : Len(p) > 1 => (Parent(p) \in DOMAIN t /\ t[Parent(p)].kind = "dir")

\* The entries a path may hold in the initial trees.
InitialEntries(p) ==
  IF p = <<MANIFEST_NAME>> \/ p = <<"b">> THEN {FileEntry(FileData("x"))}
  ELSE IF p = <<"a">> THEN {DirEntry, FileEntry(FileData("x"))}
  ELSE {DirEntry} \cup {FileEntry(FileData(b)) : b \in Bytes}

InitialTrees ==
  {t \in UNION {[S -> UNION {InitialEntries(p) : p \in S}] : S \in SUBSET RelPaths} :
     WellFormed(t) /\ \A p \in DOMAIN t : t[p] \in InitialEntries(p)}

NoDir == [exists |-> FALSE, tree |-> EmptyTree]
DirOf(t) == [exists |-> TRUE, tree |-> t]

EntryOrders == {NameOrder, [i \in 1..Len(NameOrder) |-> NameOrder[Len(NameOrder) + 1 - i]]}

(***************************************************************************)
(* storage.ts                                                              *)
(***************************************************************************)
\* getSiteOPFSDirectory: both getDirectoryHandle calls create what is missing.
getSiteOPFSDirectory(fs, d, siteId) ==
  IF fs[d][siteId].exists THEN fs
  ELSE [fs EXCEPT ![d][siteId] = DirOf(EmptyTree)]

RECURSIVE FilterOut(_, _)
FilterOut(s, siteId) ==
  IF s = <<>> THEN <<>>
  ELSE IF Head(s) = siteId THEN FilterOut(Tail(s), siteId)
  ELSE <<Head(s)>> \o FilterOut(Tail(s), siteId)

(***************************************************************************)
(* cloudSync.ts: uploadSiteToCloud                                         *)
(***************************************************************************)
\* A key without the segment of the site.
StorageKeyOfUser(userId, siteId, relPath) == <<userId>> \o relPath

\* cloudSync.ts line 225: `${userId}/${siteId}/${file.path}`.
StorageKey(userId, siteId, relPath) == <<userId, siteId>> \o relPath
ManifestKey(userId, siteId) == <<userId, siteId, MANIFEST_NAME>>

\* A walk that collects the files of the directory and does not descend.
RECURSIVE WalkNamesFlat(_, _, _, _)
WalkNamesFlat(t, order, basePath, names) ==
  IF names = <<>> THEN [files |-> <<>>, dirs |-> <<>>]
  ELSE LET p == Append(basePath, Head(names))
           rest == WalkNamesFlat(t, order, basePath, Tail(names))
       IN IF p \in DOMAIN t /\ t[p].kind = "file"
            THEN [files |-> <<[path |-> p, data |-> t[p].data]>> \o rest.files,
                  dirs |-> rest.dirs]
            ELSE rest

\* walk (lines 205-222): entries() in entryOrder, a file is read and
\* collected, a directory is recorded and walked before the next entry.
RECURSIVE WalkNames(_, _, _, _)
WalkNames(t, order, basePath, names) ==
  IF names = <<>> THEN [files |-> <<>>, dirs |-> <<>>]
  ELSE LET p == Append(basePath, Head(names))
           rest == WalkNames(t, order, basePath, Tail(names))
       IN IF p \notin DOMAIN t THEN rest
          ELSE IF t[p].kind = "file"
            THEN [files |-> <<[path |-> p, data |-> t[p].data]>> \o rest.files,
                  dirs |-> rest.dirs]
            ELSE LET sub == WalkNames(t, order, p, order)
                 IN [files |-> sub.files \o rest.files,
                     dirs |-> <<p>> \o sub.dirs \o rest.dirs]

walk(t, order) == WalkNames(t, order, <<>>, order)

PathsOf(files) == [i \in 1..Len(files) |-> files[i].path]

IdleUp ==
  [pc |-> "idle", dev |-> "d1", files |-> <<>>, dirs |-> <<>>, i |-> 1,
   log |-> <<>>, failedAt |-> 0, manifestOk |-> FALSE, tree |-> EmptyTree,
   round |-> 0]
IdleDown ==
  [pc |-> "idle", dev |-> "d1", files |-> <<>>, dirs |-> <<>>, i |-> 1,
   skipped |-> {}, before |-> NoDir, gotManifest |-> FALSE, localError |-> FALSE,
   restored |-> {}, again |-> FALSE, copied |-> {}, during |-> "idle"]
IdleDel == [pc |-> "idle", dev |-> "d1", listed |-> {}, result |-> "none"]

\* lines 199-221: the directory is opened (created when missing) and walked.
UploadStart(d) ==
  /\ up.pc = "idle" /\ down.pc = "idle" /\ del.pc = "idle"
  /\ LET fs == getSiteOPFSDirectory(opfs, d, TheSite)
         w == walk(fs[d][TheSite].tree, entryOrder)
     IN /\ opfs' = fs
        /\ up' = [IdleUp EXCEPT !.pc = "files", !.dev = d, !.files = w.files,
                                !.dirs = w.dirs, !.tree = fs[d][TheSite].tree,
                                !.round = 1]
  /\ UNCHANGED <<localSites, rows, objects, entryOrder, down, del, siteVars, cloudVars>>

\* lines 224-232: the next file is written (upsert) to {user}/{site}/{path}.
UploadFileOk ==
  /\ up.pc = "files" /\ up.i <= Len(up.files)
  /\ LET f == up.files[up.i]
         key == StorageKey(TheUser, TheSite, f.path)
     IN /\ objects' = Put(objects, key, f.data)
        /\ up' = [up EXCEPT !.i = @ + 1,
                            !.log = Append(@, [key |-> key, manifest |-> FALSE])]
  /\ UNCHANGED <<opfs, localSites, rows, entryOrder, down, del, siteVars, cloudVars>>

\* A failed write that is logged and passed over.
UploadFileFailContinue ==
  /\ up.pc = "files" /\ up.i <= Len(up.files)
  /\ up' = [up EXCEPT !.i = @ + 1, !.failedAt = up.i]
  /\ UNCHANGED <<opfs, localSites, rows, objects, entryOrder, down, del, siteVars, cloudVars>>

\* lines 233-236, 260-263: a failed write is thrown, caught, logged and rethrown.
UploadFileFail ==
  /\ up.pc = "files" /\ up.i <= Len(up.files)
  /\ up' = [up EXCEPT !.pc = "failed", !.failedAt = up.i]
  /\ UNCHANGED <<opfs, localSites, rows, objects, entryOrder, down, del, siteVars, cloudVars>>

\* lines 239-253: the manifest lists the paths of the collected files and the
\* directories, and is written (upsert) to {user}/{site}/manifest.json.
UploadManifestOk ==
  /\ up.pc = "files" /\ up.i > Len(up.files)
  /\ LET key == ManifestKey(TheUser, TheSite)
     IN /\ objects' = Put(objects, key, ManifestData(PathsOf(up.files), up.dirs))
        /\ up' = [up EXCEPT !.pc = "done", !.manifestOk = TRUE,
                            !.log = Append(@, [key |-> key, manifest |-> TRUE])]
  /\ UNCHANGED <<opfs, localSites, rows, entryOrder, down, del, siteVars, cloudVars>>

\* lines 255-257: a failed manifest write is a warning; the upload returns.
UploadManifestFail ==
  /\ up.pc = "files" /\ up.i > Len(up.files)
  /\ up' = [up EXCEPT !.pc = "done", !.manifestOk = FALSE]
  /\ UNCHANGED <<opfs, localSites, rows, objects, entryOrder, down, del, siteVars, cloudVars>>

UploadEnded == up.pc \in {"done", "failed"}

(***************************************************************************)
(* cloudSync.ts: downloadSiteFromCloud                                     *)
(***************************************************************************)
\* ensureDir: getDirectoryHandle(segment, {create: true}) along the path; a
\* segment that exists as a file makes the call throw (TypeMismatchError).
RECURSIVE EnsureFrom(_, _, _)
EnsureFrom(t, dirPath, k) ==
  IF k > Len(dirPath) THEN [tree |-> t, ok |-> TRUE]
  ELSE LET p == SubSeq(dirPath, 1, k)
       IN IF p \in DOMAIN t
            THEN IF t[p].kind = "dir" THEN EnsureFrom(t, dirPath, k + 1)
                 ELSE [tree |-> t, ok |-> FALSE]
            ELSE EnsureFrom(Put(t, p, DirEntry), dirPath, k + 1)

ensureDir(t, dirPath) == EnsureFrom(t, dirPath, 1)

\* lines 295-299: the directories of the manifest, in order, until one throws.
RECURSIVE EnsureAll(_, _)
EnsureAll(t, dirs) ==
  IF dirs = <<>> THEN [tree |-> t, ok |-> TRUE]
  ELSE LET r == ensureDir(t, Head(dirs))
       IN IF r.ok THEN EnsureAll(r.tree, Tail(dirs)) ELSE r

\* A write of the file under its last name into the site directory itself.
WriteFileFlat(t, relPath, data) ==
  LET name == <<relPath[Len(relPath)]>>
  IN IF name \in DOMAIN t /\ t[name].kind = "dir"
       THEN [tree |-> t, ok |-> FALSE]
       ELSE [tree |-> Put(t, name, FileEntry(data)), ok |-> TRUE]

\* lines 312-320: the parent directory is ensured, the file handle is opened
\* (created when missing; a directory of that name throws) and written.
WriteFile(t, relPath, data) ==
  LET r == ensureDir(t, Parent(relPath))
  IN IF ~r.ok THEN r
     ELSE IF relPath \in DOMAIN r.tree /\ r.tree[relPath].kind = "dir"
       THEN [tree |-> r.tree, ok |-> FALSE]
       ELSE [tree |-> Put(r.tree, relPath, FileEntry(data)), ok |-> TRUE]

AfterFile(i, n) == IF i >= n THEN "returned" ELSE "files"

\* line 271: the directory is opened (created when missing).
DownloadStart(d) ==
  /\ UploadEnded /\ down.pc = "idle" /\ del.pc = "idle"
  /\ opfs' = getSiteOPFSDirectory(opfs, d, TheSite)
  /\ down' = [IdleDown EXCEPT !.pc = "manifest", !.dev = d, !.before = opfs[d][TheSite]]
  /\ UNCHANGED <<localSites, rows, objects, entryOrder, up, del, siteVars, cloudVars>>

\* lines 275-279, 327-328: no manifest (an error or no data): nothing is restored.
DownloadNoManifest ==
  /\ down.pc = "manifest"
  /\ down' = [down EXCEPT !.pc = "returned"]
  /\ UNCHANGED <<opfs, localSites, rows, objects, entryOrder, up, del, siteVars, cloudVars>>

\* lines 279-299: the manifest is parsed and its directories are created.
DownloadManifestOk ==
  /\ down.pc = "manifest"
  /\ ManifestKey(TheUser, TheSite) \in DOMAIN objects
  /\ LET m == objects[ManifestKey(TheUser, TheSite)]
         t == opfs[down.dev][TheSite].tree
         r == EnsureAll(t, m.dirs)
     IN IF ~m.manifest
          THEN /\ down' = [down EXCEPT !.pc = "threw"]
               /\ opfs' = opfs
          ELSE /\ opfs' = [opfs EXCEPT ![down.dev][TheSite].tree = r.tree]
               /\ down' = [down EXCEPT !.gotManifest = TRUE, !.files = m.files,
                             !.dirs = m.dirs, !.localError = ~r.ok,
                             !.pc = IF ~r.ok THEN "threw" ELSE AfterFile(0, Len(m.files))]
  /\ UNCHANGED <<localSites, rows, objects, entryOrder, up, del, siteVars, cloudVars>>

\* The same fetch failure, were it rethrown instead of skipped.
DownloadFileSkipThrows ==
  /\ down.pc = "files"
  /\ down' = [down EXCEPT !.skipped = @ \cup {down.files[down.i]}, !.pc = "threw"]
  /\ UNCHANGED <<opfs, localSites, rows, objects, entryOrder, up, del, siteVars, cloudVars>>

\* lines 303-310: the fetch fails or returns no data: logged, next file.
DownloadFileSkip ==
  /\ down.pc = "files"
  /\ down' = [down EXCEPT !.skipped = @ \cup {down.files[down.i]}, !.i = @ + 1,
                          !.pc = AfterFile(down.i, Len(down.files))]
  /\ UNCHANGED <<opfs, localSites, rows, objects, entryOrder, up, del, siteVars, cloudVars>>

\* lines 303-320: the file is fetched and written under the site directory.
DownloadFileOk ==
  /\ down.pc = "files"
  /\ LET relPath == down.files[down.i]
         key == StorageKey(TheUser, TheSite, relPath)
     IN /\ key \in DOMAIN objects
        /\ LET r == WriteFile(opfs[down.dev][TheSite].tree, relPath, objects[key])
           IN /\ opfs' = [opfs EXCEPT ![down.dev][TheSite].tree = r.tree]
              /\ down' = [down EXCEPT !.i = @ + 1, !.localError = ~r.ok,
                            !.pc = IF r.ok THEN AfterFile(down.i, Len(down.files))
                                   ELSE "threw"]
  /\ UNCHANGED <<localSites, rows, objects, entryOrder, up, del, siteVars, cloudVars>>

(***************************************************************************)
(* SiteCard.handleDelete: deleteSiteFromCloud, then deleteSite             *)
(***************************************************************************)
SitePrefix(userId, siteId) == <<userId, siteId>>

KeysUnder(objs, prefix) ==
  {k \in DOMAIN objs : IsPrefix(prefix, k) /\ Len(k) > Len(prefix)}

\* storage.list(folder): the names directly under the folder, the files and
\* the sub-folders alike; it does not descend.
ListNames(objs, prefix) == {k[Len(prefix) + 1] : k \in KeysUnder(objs, prefix)}

\* line 401: one path per listed name.
FilePaths(userId, siteId, names) == {<<userId, siteId, n>> : n \in names}

DeleteStart(d) ==
  /\ UploadEnded /\ down.pc = "idle" /\ del.pc = "idle"
  /\ del' = [IdleDel EXCEPT !.pc = "row", !.dev = d]
  /\ UNCHANGED <<opfs, localSites, rows, objects, entryOrder, up, down, siteVars, cloudVars>>

\* cloudSync.ts 387-391: the row of the site and the user is deleted.
DeleteRowOk ==
  /\ del.pc = "row"
  /\ rows' = Without(rows, {r \in DOMAIN rows : r = TheSite /\ rows[r].user_id = TheUser})
  /\ del' = [del EXCEPT !.pc = "list"]
  /\ UNCHANGED <<opfs, localSites, objects, entryOrder, up, down, siteVars, cloudVars>>

\* A delete that removes the local side although the row delete failed.
DeleteRowFailLocalGone ==
  /\ del.pc = "row"
  /\ localSites' = [localSites EXCEPT ![del.dev] = FilterOut(@, TheSite)]
  /\ opfs' = [opfs EXCEPT ![del.dev][TheSite] = NoDir]
  /\ del' = [del EXCEPT !.pc = "done", !.result = "failed"]
  /\ UNCHANGED <<rows, objects, entryOrder, up, down, siteVars, cloudVars>>

\* cloudSync.ts 393, 410-413 and SiteCard 99-104: thrown, 'Delete failed'.
DeleteRowFail ==
  /\ del.pc = "row"
  /\ del' = [del EXCEPT !.pc = "done", !.result = "failed"]
  /\ UNCHANGED <<opfs, localSites, rows, objects, entryOrder, up, down, siteVars, cloudVars>>

\* cloudSync.ts 396-400: the folder is listed; an empty list skips the removal.
DeleteListOk ==
  /\ del.pc = "list"
  /\ LET names == ListNames(objects, SitePrefix(TheUser, TheSite))
     IN del' = [del EXCEPT !.listed = names,
                           !.pc = IF names = {} THEN "local" ELSE "remove"]
  /\ UNCHANGED <<opfs, localSites, rows, objects, entryOrder, up, down, siteVars, cloudVars>>

\* cloudSync.ts 396-400: the error of list is not read; data is null.
DeleteListFail ==
  /\ del.pc = "list"
  /\ del' = [del EXCEPT !.pc = "local"]
  /\ UNCHANGED <<opfs, localSites, rows, objects, entryOrder, up, down, siteVars, cloudVars>>

\* cloudSync.ts 401-404: the objects with exactly the listed paths are removed.
DeleteRemoveOk ==
  /\ del.pc = "remove"
  /\ objects' = Without(objects, FilePaths(TheUser, TheSite, del.listed))
  /\ del' = [del EXCEPT !.pc = "local"]
  /\ UNCHANGED <<opfs, localSites, rows, entryOrder, up, down, siteVars, cloudVars>>

\* cloudSync.ts 406: a storage error is logged only.
DeleteRemoveFail ==
  /\ del.pc = "remove"
  /\ del' = [del EXCEPT !.pc = "local"]
  /\ UNCHANGED <<opfs, localSites, rows, objects, entryOrder, up, down, siteVars, cloudVars>>

\* storage.ts 73-84 and SiteCard 94-98: the metadata entry is filtered out, the
\* directory is removed recursively, 'Site deleted'.
DeleteLocalOk ==
  /\ del.pc = "local"
  /\ opfs[del.dev][TheSite].exists
  /\ localSites' = [localSites EXCEPT ![del.dev] = FilterOut(@, TheSite)]
  /\ opfs' = [opfs EXCEPT ![del.dev][TheSite] = NoDir]
  /\ del' = [del EXCEPT !.pc = "done", !.result = "success"]
  /\ UNCHANGED <<rows, objects, entryOrder, up, down, siteVars, cloudVars>>

\* storage.ts 85-87: removeEntry (or opening the sites directory) throws: the
\* error is logged, deleteSite returns, 'Site deleted'.
DeleteLocalFail ==
  /\ del.pc = "local"
  /\ localSites' = [localSites EXCEPT ![del.dev] = FilterOut(@, TheSite)]
  /\ del' = [del EXCEPT !.pc = "done", !.result = "success"]
  /\ UNCHANGED <<opfs, rows, objects, entryOrder, up, down, siteVars, cloudVars>>

(***************************************************************************)
(* The Site page (pages/Site.tsx)                                          *)
(***************************************************************************)
\* Seconds: setTimeout(..., 5000), setTimeout(..., 2000), setInterval(..., 30000).
DEBOUNCE_SECONDS == 5
INITIAL_SYNC_SECONDS == 2
SYNC_INTERVAL_SECONDS == 30

\* Bounds: sync runs in progress at once, and where the count of
\* triggerCloudSync calls since the last debounced run saturates.
MaxInFlight == 3
MaxCalls == 2

NoSite == [loaded |-> FALSE, isInitialized |-> FALSE]

\* part_003 line 25: useState(true) for isTitleSyncing; no update of the
\* title is pending.  attempt is the argument of updateSiteTitle, failed the
\* attempts that threw, path the branch of initializeWordPress that started
\* the update.
IdleTitle ==
  [isTitleSyncing |-> TRUE, pc |-> "idle", attempt |-> 0, failed |-> 0, path |-> "none"]

\* line 317
INIT_FAILED == "Failed to initialize WordPress. Please try again."

\* The browser the Site page runs in.
PageDevice == "d1"

\* playground.ts lines 30-47: WordPress is taken to be in OPFS when the site
\* directory holds the file core.marker.
CORE_MARKER == <<"core.marker">>

hasLocalWordPress(fs, d, siteId) ==
  /\ fs[d][siteId].exists
  /\ CORE_MARKER \in DOMAIN fs[d][siteId].tree
  /\ fs[d][siteId].tree[CORE_MARKER].kind = "file"

\* An install decided by the isInitialized argument of the call.
shouldInstallUnlessInitialized(fs, d, siteId, isInitialized) == ~isInitialized

\* playground.ts line 71: shouldInstallWordPress of a call of
\* initializePlayground(iframe, siteId, isInitialized); the body never reads
\* isInitialized.
shouldInstallWordPress(fs, d, siteId, isInitialized) == ~hasLocalWordPress(fs, d, siteId)

\* playground.ts lines 84-98: after an install the marker is written.
AfterStart(fs, d, siteId, installed) ==
  IF installed
    THEN [fs EXCEPT ![d][siteId] =
            DirOf(Put(fs[d][siteId].tree, CORE_MARKER, FileEntry(FileData("x"))))]
    ELSE fs

RunKinds == {"debounced", "initial", "final"}
Slots == RunKinds \X (1..2)

\* The cloud calls a sync run awaits, in order, after it has awaited the flush
\* of the runtime's files to OPFS: lines 248-250 (initial), 437-439
\* (debounced) and 461-463 (final).  A run at position 1 awaits the flush
\* and then its first cloud call; at position 2 it awaits its second.
RunSteps(kind) ==
  IF kind = "initial" THEN <<"meta", "upload">> ELSE <<"upload", "meta">>

InFlight(kind) == inflight[<<kind, 1>>] + inflight[<<kind, 2>>]
InFlightTotal == InFlight("debounced") + InFlight("initial") + InFlight("final")

NoRuns == [sl \in Slots |-> 0]

Min(a, b) == IF a <= b THEN a ELSE b

\* lines 487-512: the page shows the spinner, the error screen or the site.
MainShown == mounted /\ ~isLoading /\ error = "none" /\ site.loaded
\* line 517: the bar with Back, the sync status and Retry.
BarShown == MainShown /\ ~isBarHidden
\* lines 533-541
RetryOffered == BarShown /\ syncStatus = "error"

\* lines 54-63: the interval effect runs when its dependencies change; it sets
\* the interval when a client, an initialized site and a user are there, and
\* its cleanup clears the interval.
IntervalEffect(m, client, s, interval) ==
  IF m /\ client /\ s.isInitialized
    THEN (IF interval = -1 THEN SYNC_INTERVAL_SECONDS ELSE interval)
    ELSE -1

\* syncSiteMetadata (cloudSync.ts 336-357): upsert of the row of the site.
syncSiteMetadata(rs, siteId, userId, isInitialized) ==
  Put(rs, siteId, [user_id |-> userId, is_initialized |-> isInitialized])

\* React drops a state update of an unmounted component.
SetState(m, new, old) == IF m THEN new ELSE old

\* Dashboard -> /site/:siteId : a fresh component; lines 37-45 call loadSite.
OpenSite ==
  /\ ~mounted
  /\ loadPc = "idle" /\ initPc = "idle"
  /\ debounceTimers = {} /\ initialSyncTimer = -1 /\ InFlightTotal = 0
  /\ mounted' = TRUE
  /\ site' = NoSite
  /\ isLoading' = TRUE
  /\ isInitializing' = FALSE
  /\ error' = "none"
  /\ playgroundClient' = FALSE
  /\ syncStatus' = "offline"
  /\ loadPc' = "sites"
  /\ syncDebounceRef' = -1
  /\ hist' = [hist EXCEPT !.ev = "none", !.covered = 0, !.runOK = FALSE,
                          !.foundInit = FALSE, !.initCalls = 0, !.install = FALSE]
  /\ titleSync' = IdleTitle
  /\ UNCHANGED <<mirrorVars, dash, req, rows, isBarHidden, initPc, debounceTimers,
                 initialSyncTimer, syncInterval, inflight>>

\* lines 123-124: the rows are loaded and the site is among them.
LoadSiteFound ==
  /\ loadPc = "sites"
  /\ TheSite \in DOMAIN rows /\ rows[TheSite].user_id = TheUser
  /\ loadPc' = "download"
  /\ hist' = [hist EXCEPT !.ev = "none", !.covered = 0, !.foundInit = rows[TheSite].is_initialized]
  /\ UNCHANGED <<mirrorVars, cloudVars, rows, mounted, site, isLoading, isInitializing, error,
                 playgroundClient, syncStatus, isBarHidden, initPc,
                 timerVars, inflight>>

\* lines 126-130: no such row (loadSitesFromCloud returns [] on an error).
LoadSiteNotFound ==
  /\ loadPc = "sites"
  /\ loadPc' = "idle"
  /\ error' = "Site not found"
  /\ isLoading' = FALSE
  /\ hist' = [hist EXCEPT !.ev = "none", !.covered = 0]
  /\ UNCHANGED <<mirrorVars, cloudVars, rows, mounted, site, isInitializing, playgroundClient,
                 syncStatus, isBarHidden, initPc, timerVars, inflight>>

\* lines 134-143 and 47-51, 152-155: the download has returned or thrown, the
\* site is set, and the effect starts initializeWordPress.
LoadSiteDownloaded ==
  /\ loadPc = "download"
  /\ loadPc' = "idle"
  /\ site' = [loaded |-> TRUE, isInitialized |-> hist.foundInit]
  /\ isLoading' = FALSE
  /\ isInitializing' = TRUE
  /\ error' = "none"
  /\ initPc' = "starting"
  /\ hist' = [hist EXCEPT !.ev = "none", !.covered = 0, !.initCalls = 1,
                          !.install = shouldInstallWordPress(opfs, PageDevice, TheSite,
                                                             hist.foundInit)]
  /\ UNCHANGED <<mirrorVars, cloudVars, rows, mounted, playgroundClient, syncStatus, isBarHidden,
                 timerVars, inflight>>

\* lines 161-167, 224, 233-266, 325: the runtime has started; the title
\* update is set 300 ms ahead.  A site that was not
\* initialized is marked initialized in the page state and its first sync is
\* set 2 s ahead; otherwise the status is set to 'synced'.
InitPlaygroundOk ==
  /\ initPc = "starting"
  /\ initPc' = "idle"
  /\ playgroundClient' = SetState(mounted, TRUE, playgroundClient)
  /\ isInitializing' = SetState(mounted, FALSE, isInitializing)
  /\ IF ~site.isInitialized
       THEN /\ site' = SetState(mounted, [site EXCEPT !.isInitialized = TRUE], site)
            /\ initialSyncTimer' = INITIAL_SYNC_SECONDS
            /\ syncStatus' = syncStatus
       ELSE /\ syncStatus' = SetState(mounted, "synced", syncStatus)
            /\ UNCHANGED <<site, initialSyncTimer>>
  /\ syncInterval' = IntervalEffect(mounted, playgroundClient', site', syncInterval)
  /\ opfs' = AfterStart(opfs, PageDevice, TheSite, hist.install)
  /\ hist' = [hist EXCEPT !.ev = "none", !.covered = 0, !.initCalls = 0,
                          !.install = FALSE]
  /\ titleSync' = [titleSync EXCEPT !.pc = "wait", !.attempt = 1, !.path = "first"]
  /\ UNCHANGED <<localSites, objects, entryOrder, up, down, del, rows, dash, req,
                 mounted, isLoading, error, isBarHidden, loadPc, debounceTimers,
                 syncDebounceRef, inflight>>

\* lines 280-290: the start has thrown; initializePlayground is called again,
\* with false for isInitialized.
InitPlaygroundFail ==
  /\ initPc = "starting"
  /\ initPc' = "retrying"
  /\ hist' = [hist EXCEPT !.ev = "none", !.covered = 0, !.initCalls = 2,
                          !.install = shouldInstallWordPress(opfs, PageDevice, TheSite,
                                                             FALSE)]
  /\ UNCHANGED <<mirrorVars, cloudVars, rows, mounted, site, isLoading, isInitializing, error,
                 playgroundClient, syncStatus, isBarHidden, loadPc,
                 timerVars, inflight>>

\* lines 291-314, 325: the retry has started the runtime; its one title
\* update is set 300 ms ahead.
InitRetryOk ==
  /\ initPc = "retrying"
  /\ initPc' = "idle"
  /\ playgroundClient' = SetState(mounted, TRUE, playgroundClient)
  /\ isInitializing' = SetState(mounted, FALSE, isInitializing)
  /\ syncInterval' = IntervalEffect(mounted, playgroundClient', site, syncInterval)
  /\ opfs' = AfterStart(opfs, PageDevice, TheSite, hist.install)
  /\ hist' = [hist EXCEPT !.ev = "none", !.covered = 0, !.initCalls = 0,
                          !.install = FALSE]
  /\ titleSync' = [titleSync EXCEPT !.pc = "wait", !.attempt = 1, !.path = "retry"]
  /\ UNCHANGED <<localSites, objects, entryOrder, up, down, del, rows, dash, req,
                 mounted, site, isLoading, error, syncStatus, isBarHidden, loadPc, debounceTimers,
                 syncDebounceRef, initialSyncTimer, inflight>>

\* A failed retry that ends the run without setting the error.
InitRetryFailSilent ==
  /\ initPc = "retrying"
  /\ initPc' = "idle"
  /\ isInitializing' = SetState(mounted, FALSE, isInitializing)
  /\ hist' = [hist EXCEPT !.ev = "none", !.covered = 0]
  /\ UNCHANGED <<mirrorVars, cloudVars, rows, mounted, site, isLoading, error, playgroundClient,
                 syncStatus, isBarHidden, loadPc, timerVars, inflight>>

\* lines 315-325: the retry has thrown too.
InitRetryFail ==
  /\ initPc = "retrying"
  /\ initPc' = "idle"
  /\ error' = SetState(mounted, INIT_FAILED, error)
  /\ isInitializing' = SetState(mounted, FALSE, isInitializing)
  /\ hist' = [hist EXCEPT !.ev = "none", !.covered = 0]
  /\ UNCHANGED <<mirrorVars, cloudVars, rows, mounted, site, isLoading, playgroundClient,
                 syncStatus, isBarHidden, loadPc, timerVars, inflight>>

\* One second passes; a timeout that is due runs before the next second.
Dec(t) == IF t > 0 THEN t - 1 ELSE t

Tick ==
  /\ 0 \notin debounceTimers /\ initialSyncTimer # 0 /\ syncInterval # 0
  /\ \/ debounceTimers # {} \/ initialSyncTimer > 0 \/ syncInterval > 0
     \/ hist.sinceCall < DEBOUNCE_SECONDS
  /\ debounceTimers' = {t - 1 : t \in debounceTimers}
  /\ syncDebounceRef' = Dec(syncDebounceRef)
  /\ initialSyncTimer' = Dec(initialSyncTimer)
  /\ syncInterval' = Dec(syncInterval)
  /\ hist' = [hist EXCEPT !.ev = "none", !.covered = 0, !.sinceCall = Min(@ + 1, DEBOUNCE_SECONDS)]
  /\ UNCHANGED <<mirrorVars, cloudVars, rows, pageVars, inflight>>

\* A trigger that sets its timeout and leaves the pending one.
triggerCloudSyncNoClear(timers, ref) == timers \cup {DEBOUNCE_SECONDS}

\* lines 427-445: the timeout the ref names is cleared and a new one is set.
triggerCloudSync(timers, ref) ==
  (IF ref >= 0 THEN timers \ {ref} ELSE timers) \cup {DEBOUNCE_SECONDS}

CallRecorded(e) ==
  [hist EXCEPT !.ev = e, !.covered = 0, !.sinceCall = 0,
               !.calls = Min(@ + 1, MaxCalls)]

\* An interval whose callback does nothing.
IntervalFireIdle ==
  /\ syncInterval = 0
  /\ syncInterval' = SYNC_INTERVAL_SECONDS
  /\ hist' = [hist EXCEPT !.ev = "none", !.covered = 0]
  /\ UNCHANGED <<mirrorVars, cloudVars, rows, pageVars, initialSyncTimer, inflight,
                 debounceTimers, syncDebounceRef>>

\* lines 58-60: the interval calls triggerCloudSync.
IntervalFire ==
  /\ syncInterval = 0
  /\ syncInterval' = SYNC_INTERVAL_SECONDS
  /\ debounceTimers' = triggerCloudSync(debounceTimers, syncDebounceRef)
  /\ syncDebounceRef' = DEBOUNCE_SECONDS
  /\ hist' = CallRecorded("call")
  /\ UNCHANGED <<mirrorVars, cloudVars, rows, pageVars, initialSyncTimer, inflight>>

\* lines 448-453, the Retry button: handleManualSave awaits forceFlushToOPFS
\* (which catches its own errors) and then calls triggerCloudSync.
handleManualSave ==
  /\ RetryOffered
  /\ IF playgroundClient /\ site.isInitialized
       THEN /\ debounceTimers' = triggerCloudSync(debounceTimers, syncDebounceRef)
            /\ syncDebounceRef' = DEBOUNCE_SECONDS
            /\ hist' = CallRecorded("retry")
       ELSE /\ hist' = [hist EXCEPT !.ev = "none", !.covered = 0]
            /\ UNCHANGED <<debounceTimers, syncDebounceRef>>
  /\ UNCHANGED <<mirrorVars, cloudVars, rows, pageVars, initialSyncTimer, syncInterval, inflight>>

StartRun(kind) == [inflight EXCEPT ![<<kind, 1>>] = @ + 1]

\* A debounce timeout that waits until no other run is in progress.
DebounceFireExclusive ==
  /\ 0 \in debounceTimers
  /\ InFlightTotal = 0
  /\ debounceTimers' = debounceTimers \ {0}
  /\ syncDebounceRef' = IF syncDebounceRef = 0 THEN -1 ELSE syncDebounceRef
  /\ syncStatus' = SetState(mounted, "syncing", syncStatus)
  /\ inflight' = StartRun("debounced")
  /\ hist' = [hist EXCEPT !.ev = "fire", !.covered = hist.calls, !.calls = 0]
  /\ UNCHANGED <<mirrorVars, cloudVars, rows, mounted, site, isLoading, isInitializing, error,
                 playgroundClient, isBarHidden, loadPc, initPc,
                 initialSyncTimer, syncInterval>>

\* lines 433-436: the debounce timeout runs: 'syncing', the flush is awaited.
DebounceFire ==
  /\ 0 \in debounceTimers
  /\ InFlightTotal < MaxInFlight
  /\ debounceTimers' = debounceTimers \ {0}
  /\ syncDebounceRef' = IF syncDebounceRef = 0 THEN -1 ELSE syncDebounceRef
  /\ syncStatus' = SetState(mounted, "syncing", syncStatus)
  /\ inflight' = StartRun("debounced")
  /\ hist' = [hist EXCEPT !.ev = "fire", !.covered = hist.calls, !.calls = 0]
  /\ UNCHANGED <<mirrorVars, cloudVars, rows, mounted, site, isLoading, isInitializing, error,
                 playgroundClient, isBarHidden, loadPc, initPc,
                 initialSyncTimer, syncInterval>>

\* lines 244-248: the 2 s timeout runs: 'syncing', the flush is awaited.
InitialFire ==
  /\ initialSyncTimer = 0
  /\ InFlightTotal < MaxInFlight
  /\ initialSyncTimer' = -1
  /\ syncStatus' = SetState(mounted, "syncing", syncStatus)
  /\ inflight' = StartRun("initial")
  /\ hist' = [hist EXCEPT !.ev = "none", !.covered = 0]
  /\ UNCHANGED <<mirrorVars, cloudVars, rows, mounted, site, isLoading, isInitializing, error,
                 playgroundClient, isBarHidden, loadPc, initPc,
                 debounceTimers, syncDebounceRef, syncInterval>>

\* A catch that leaves the status as it is.
StatusAfterRunNoError(kind, ok, status) ==
  IF kind = "final" \/ ~ok THEN status ELSE "synced"

\* The status a run leaves when it ends: lines 251-255 and 440-444 set
\* 'synced' or 'error'; the final sync of handleBack (464-466) sets nothing.
StatusAfterRun(kind, ok, status) ==
  IF kind = "final" THEN status
  ELSE IF ok THEN "synced" ELSE "error"

\* line 468: navigate('/') after the final sync: the page is unmounted and the
\* cleanup of the interval effect clears the interval.
MountedAfterRun(kind) == IF kind = "final" THEN FALSE ELSE mounted

EndRun(kind, pos, ok) ==
  /\ inflight' = [inflight EXCEPT ![<<kind, pos>>] = @ - 1]
  /\ syncStatus' = SetState(mounted, StatusAfterRun(kind, ok, syncStatus), syncStatus)
  /\ mounted' = MountedAfterRun(kind)
  /\ syncInterval' = IF kind = "final" THEN -1 ELSE syncInterval

\* An awaited call of a run returns: the next call is made, or the run ends.
\* The metadata upsert writes the row with isInitialized true: every run is
\* started for a site whose page state says so.
RunStepOk(kind, pos) ==
  /\ inflight[<<kind, pos>>] > 0
  /\ rows' = IF RunSteps(kind)[pos] = "meta"
               THEN syncSiteMetadata(rows, TheSite, TheUser, TRUE)
               ELSE rows
  /\ IF pos < Len(RunSteps(kind))
       THEN /\ inflight' = [inflight EXCEPT ![<<kind, pos>>] = @ - 1,
                                            ![<<kind, pos + 1>>] = @ + 1]
            /\ UNCHANGED <<syncStatus, mounted, syncInterval>>
       ELSE EndRun(kind, pos, TRUE)
  /\ hist' = [hist EXCEPT !.ev = "none", !.covered = 0,
                          !.runOK = @ \/ (mounted /\ pos = Len(RunSteps(kind)) /\ kind # "final"),
                          !.firstSync = @ \/ RunSteps(kind)[pos] = "upload"]
  /\ UNCHANGED <<mirrorVars, cloudVars, site, isLoading, isInitializing, error, playgroundClient,
                 isBarHidden, loadPc, initPc, debounceTimers,
                 syncDebounceRef, initialSyncTimer>>

\* An awaited call of a run throws: the run ends in its catch.
RunStepFail(kind, pos) ==
  /\ inflight[<<kind, pos>>] > 0
  /\ EndRun(kind, pos, FALSE)
  /\ hist' = [hist EXCEPT !.ev = IF kind = "final" THEN "failedFinal" ELSE "failed",
                          !.covered = 0]
  /\ UNCHANGED <<mirrorVars, cloudVars, rows, site, isLoading, isInitializing, error,
                 playgroundClient, isBarHidden, loadPc, initPc,
                 debounceTimers, syncDebounceRef, initialSyncTimer>>

\* A Back that navigates at once and syncs behind the dashboard.
BackNavigatesFirst ==
  /\ BarShown
  /\ playgroundClient /\ site.isInitialized
  /\ InFlightTotal < MaxInFlight
  /\ mounted' = FALSE
  /\ syncInterval' = -1
  /\ inflight' = StartRun("final")
  /\ hist' = [hist EXCEPT !.ev = "none", !.covered = 0]
  /\ UNCHANGED <<mirrorVars, cloudVars, rows, site, isLoading, isInitializing, error,
                 playgroundClient, syncStatus, isBarHidden, loadPc, initPc,
                 debounceTimers, syncDebounceRef, initialSyncTimer>>

\* lines 455-463: Back with a client and an initialized site: the final sync.
BackWithSync ==
  /\ BarShown
  /\ playgroundClient /\ site.isInitialized
  /\ InFlightTotal < MaxInFlight
  /\ syncStatus' = "syncing"
  /\ inflight' = StartRun("final")
  /\ hist' = [hist EXCEPT !.ev = "none", !.covered = 0]
  /\ UNCHANGED <<mirrorVars, cloudVars, rows, mounted, site, isLoading, isInitializing, error,
                 playgroundClient, isBarHidden, loadPc, initPc, timerVars>>

\* lines 457, 468: Back without them, and lines 505-508, the button of the
\* error screen: navigate('/').
BackPlain ==
  /\ \/ BarShown /\ ~(playgroundClient /\ site.isInitialized)
     \/ mounted /\ ~isLoading /\ (error # "none" \/ ~site.loaded)
  /\ mounted' = FALSE
  /\ syncInterval' = -1
  /\ hist' = [hist EXCEPT !.ev = "none", !.covered = 0]
  /\ UNCHANGED <<mirrorVars, cloudVars, rows, site, isLoading, isInitializing, error,
                 playgroundClient, syncStatus, isBarHidden, loadPc, initPc,
                 debounceTimers, syncDebounceRef, initialSyncTimer,
                 inflight>>

\* lines 471-485: Shift+H, Esc, the hide button and the reveal handle.
ToggleBar ==
  /\ mounted
  /\ isBarHidden' = ~isBarHidden
  /\ hist' = [hist EXCEPT !.ev = "none", !.covered = 0]
  /\ UNCHANGED <<mirrorVars, cloudVars, rows, mounted, site, isLoading, isInitializing, error,
                 playgroundClient, syncStatus, loadPc, initPc, timerVars,
                 inflight>>

(***************************************************************************)
(* SpecMirror                                                              *)
(***************************************************************************)
NoHist ==
  [ev |-> "none", sinceCall |-> DEBOUNCE_SECONDS, calls |-> 0, covered |-> 0,
   runOK |-> FALSE, foundInit |-> FALSE, firstSync |-> FALSE,
   initCalls |-> 0, install |-> FALSE, marked |-> {}]

\* Dashboard, part_004 lines 650-659: the state of a component that has not
\* been used; route is what the router shows, issued the ids handed out,
\* loads the invocations of loadSites that have not returned.
IdleDash ==
  [pc |-> "idle", sites |-> {}, newSiteTitle |-> "", siteId |-> "none",
   toast |-> "none", route |-> <<"/">>, hasInitialSynced |-> FALSE, issued |-> {},
   loads |-> <<>>]

\* No request has reached the cloud.
NoReq == [user |-> "none", op |-> "none", target |-> <<>>, allowed |-> FALSE, answer |-> {}]

\* No Site page is open.
PageIdle ==
  /\ mounted = FALSE
  /\ site = NoSite
  /\ isLoading = TRUE
  /\ isInitializing = FALSE
  /\ error = "none"
  /\ playgroundClient = FALSE
  /\ syncStatus = "offline"
  /\ isBarHidden = FALSE
  /\ loadPc = "idle"
  /\ initPc = "idle"
 
  /\ debounceTimers = {}
  /\ syncDebounceRef = -1
  /\ initialSyncTimer = -1
  /\ syncInterval = -1
  /\ inflight = NoRuns
  /\ hist = NoHist
  /\ dash = IdleDash
  /\ req = NoReq
  /\ titleSync = IdleTitle

InitMirror ==
  /\ opfs \in [Devices -> [Sites -> {NoDir} \cup {DirOf(t) : t \in InitialTrees}]]
  /\ localSites \in {[d \in Devices |-> <<>>], [d \in Devices |-> <<TheSite>>]}
  /\ rows = [s \in {TheSite} |-> [user_id |-> TheUser, is_initialized |-> FALSE]]
  /\ objects = [k \in {} |-> FileData("")]
  /\ entryOrder \in EntryOrders
  /\ up = IdleUp
  /\ down = IdleDown
  /\ del = IdleDel
  /\ PageIdle

NextMirror ==
  \/ \E d \in Devices : UploadStart(d)
  \/ UploadFileOk
  \/ UploadFileFail
  \/ UploadManifestOk
  \/ UploadManifestFail
  \/ \E d \in Devices : DownloadStart(d)
  \/ DownloadNoManifest
  \/ DownloadManifestOk
  \/ DownloadFileSkip
  \/ DownloadFileOk
  \/ \E d \in Devices : DeleteStart(d)
  \/ DeleteRowOk
  \/ DeleteRowFail
  \/ DeleteListOk
  \/ DeleteListFail
  \/ DeleteRemoveOk
  \/ DeleteRemoveFail
  \/ DeleteLocalOk
  \/ DeleteLocalFail

SpecMirror == InitMirror /\ [][NextMirror]_vars

(***************************************************************************)
(* SpecSite: a site that Dashboard.handleCreateSite has just created (its  *)
(* row says isInitialized false), opened on one device.                    *)
(***************************************************************************)
InitSite ==
  /\ opfs = [d \in Devices |-> [s \in Sites |-> NoDir]]
  /\ localSites = [d \in Devices |-> <<>>]
  /\ rows = [s \in {TheSite} |-> [user_id |-> TheUser, is_initialized |-> FALSE]]
  /\ objects = [k \in {} |-> FileData("")]
  /\ entryOrder = NameOrder
  /\ up = IdleUp
  /\ down = IdleDown
  /\ del = IdleDel
  /\ PageIdle

NextSite ==
  \/ OpenSite
  \/ LoadSiteFound
  \/ LoadSiteNotFound
  \/ LoadSiteDownloaded
  \/ InitPlaygroundOk
  \/ InitPlaygroundFail
  \/ InitRetryOk
  \/ InitRetryFail
  \/ Tick
  \/ IntervalFire
  \/ handleManualSave
  \/ DebounceFire
  \/ InitialFire
  \/ \E kind \in RunKinds, pos \in 1..2 : RunStepOk(kind, pos)
  \/ \E kind \in RunKinds, pos \in 1..2 : RunStepFail(kind, pos)
  \/ BackWithSync
  \/ BackPlain
  \/ ToggleBar

SpecSite == InitSite /\ [][NextSite]_vars

(***************************************************************************)
(* SpecResync: a site that is edited, uploaded and restored again and      *)
(* again.  The upload goes call by call (the actions of SpecMirror); a     *)
(* restore is one step, each of its fetches succeeding when the object is  *)
(* there.                                                                  *)
(***************************************************************************)
\* Bound: uploads of the site.
MaxUploads == 2

SeedTree ==
  [p \in {<<"a">>, <<"a", "c">>, <<"b">>} |->
     IF p = <<"a">> THEN DirEntry ELSE FileEntry(FileData("x"))]

\* A files loop that leaves alone a file the device already holds.
RECURSIVE WriteAllMissingOnly(_, _, _, _, _)
WriteAllMissingOnly(t, files, objs, userId, siteId) ==
  IF files = <<>> THEN [tree |-> t, ok |-> TRUE, skipped |-> {}]
  ELSE IF Head(files) \in DOMAIN t
    THEN WriteAllMissingOnly(t, Tail(files), objs, userId, siteId)
  ELSE LET key == StorageKey(userId, siteId, Head(files))
       IN IF key \notin DOMAIN objs
            THEN LET rest == WriteAllMissingOnly(t, Tail(files), objs, userId, siteId)
                 IN [rest EXCEPT !.skipped = @ \cup {Head(files)}]
            ELSE LET r == WriteFile(t, Head(files), objs[key])
                 IN IF r.ok THEN WriteAllMissingOnly(r.tree, Tail(files), objs, userId, siteId)
                    ELSE [tree |-> r.tree, ok |-> FALSE, skipped |-> {}]

\* cloudSync.ts 302-321: the listed files in order; a file whose object is not
\* there is skipped, a local call that throws ends the loop.
RECURSIVE WriteAll(_, _, _, _, _)
WriteAll(t, files, objs, userId, siteId) ==
  IF files = <<>> THEN [tree |-> t, ok |-> TRUE, skipped |-> {}]
  ELSE LET key == StorageKey(userId, siteId, Head(files))
       IN IF key \notin DOMAIN objs
            THEN LET rest == WriteAll(t, Tail(files), objs, userId, siteId)
                 IN [rest EXCEPT !.skipped = @ \cup {Head(files)}]
            ELSE LET r == WriteFile(t, Head(files), objs[key])
                 IN IF r.ok THEN WriteAll(r.tree, Tail(files), objs, userId, siteId)
                    ELSE [tree |-> r.tree, ok |-> FALSE, skipped |-> {}]

\* cloudSync.ts 267-333, the whole call on the tree t of the site directory.
downloadSiteFromCloud(t, objs, userId, siteId) ==
  LET mk == ManifestKey(userId, siteId)
      none == [tree |-> t, gotManifest |-> FALSE, threw |-> FALSE,
               files |-> <<>>, dirs |-> <<>>, skipped |-> {}]
  IN IF mk \notin DOMAIN objs THEN none
     ELSE IF ~objs[mk].manifest THEN [none EXCEPT !.threw = TRUE]
     ELSE LET m == objs[mk]
              r == EnsureAll(t, m.dirs)
              w == WriteAll(r.tree, m.files, objs, userId, siteId)
          IN IF ~r.ok
               THEN [tree |-> r.tree, gotManifest |-> TRUE, threw |-> TRUE,
                     files |-> m.files, dirs |-> m.dirs, skipped |-> {}]
               ELSE [tree |-> w.tree, gotManifest |-> TRUE, threw |-> ~w.ok,
                     files |-> m.files, dirs |-> m.dirs, skipped |-> w.skipped]

\* The entries of the tree new that the tree old did not hold as they are.
Copied(old, new) == {p \in DOMAIN new : p \notin DOMAIN old \/ old[p] # new[p]}

\* The device d after one downloadSiteFromCloud of the site: its files, and
\* the record of the call (a device counts as restored once a manifest was
\* fetched for it).
AfterDownload(d) ==
  LET fs == getSiteOPFSDirectory(opfs, d, TheSite)
      r == downloadSiteFromCloud(fs[d][TheSite].tree, objects, TheUser, TheSite)
  IN [opfs |-> [fs EXCEPT ![d][TheSite].tree = r.tree],
      down |-> [IdleDown EXCEPT
                  !.dev = d, !.gotManifest = r.gotManifest,
                  !.localError = r.threw,
                  !.restored = IF r.gotManifest THEN down.restored \cup {d}
                               ELSE down.restored,
                  !.again = (d \in down.restored),
                  !.copied = Copied(opfs[d][TheSite].tree, r.tree),
                  !.during = up.pc]]

\* part_003 lines 119-149: opening a site whose row is found downloads it,
\* whatever the device holds; a throw is caught and the site is opened.
LoadSiteRestore(d) ==
  /\ TheSite \in DOMAIN rows
  /\ opfs' = AfterDownload(d).opfs
  /\ down' = AfterDownload(d).down
  /\ UNCHANGED <<localSites, rows, objects, entryOrder, up, del, siteVars, cloudVars>>

\* part_004 lines 666-690 and cloudSync.ts 417-431: a Dashboard that mounts
\* and finds rows downloads every site of the user.
initialCloudSync(d) ==
  /\ rows # << >>
  /\ opfs' = AfterDownload(d).opfs
  /\ down' = AfterDownload(d).down
  /\ UNCHANGED <<localSites, rows, objects, entryOrder, up, del, siteVars, cloudVars>>

\* playground.ts 109-118: the runtime flushes a changed file to OPFS.
syncMemfsToOPFS(d, p, b) ==
  /\ opfs[d][TheSite].exists
  /\ p \in DOMAIN opfs[d][TheSite].tree
  /\ opfs[d][TheSite].tree[p].kind = "file"
  /\ opfs[d][TheSite].tree[p].data.bytes # b
  /\ opfs' = [opfs EXCEPT ![d][TheSite].tree[p] = FileEntry(FileData(b))]
  /\ UNCHANGED <<localSites, rows, objects, entryOrder, up, down, del, siteVars, cloudVars>>

\* cloudSync.ts 199-221, of an upload that follows an earlier one.
UploadAgain(d) ==
  /\ UploadEnded
  /\ up.round < MaxUploads
  /\ LET fs == getSiteOPFSDirectory(opfs, d, TheSite)
         w == walk(fs[d][TheSite].tree, entryOrder)
     IN /\ opfs' = fs
        /\ up' = [IdleUp EXCEPT !.pc = "files", !.dev = d, !.files = w.files,
                                !.dirs = w.dirs, !.tree = fs[d][TheSite].tree,
                                !.round = up.round + 1]
  /\ UNCHANGED <<localSites, rows, objects, entryOrder, down, del, siteVars, cloudVars>>

InitResync ==
  /\ opfs = [d \in Devices |-> [s \in Sites |-> IF d = "d1" THEN DirOf(SeedTree) ELSE NoDir]]
  /\ localSites = [d \in Devices |-> <<>>]
  /\ rows = [s \in {TheSite} |-> [user_id |-> TheUser, is_initialized |-> TRUE]]
  /\ objects = [k \in {} |-> FileData("")]
  /\ entryOrder = NameOrder
  /\ up = IdleUp
  /\ down = IdleDown
  /\ del = IdleDel
  /\ PageIdle

NextResync ==
  \/ UploadStart(PageDevice)
  \/ UploadAgain(PageDevice)
  \/ UploadFileOk
  \/ UploadFileFail
  \/ UploadManifestOk
  \/ UploadManifestFail
  \/ \E d \in Devices : LoadSiteRestore(d)
  \/ \E d \in Devices : initialCloudSync(d)
  \/ \E p \in RelPaths, b \in Bytes : syncMemfsToOPFS(PageDevice, p, b)

SpecResync == InitResync /\ [][NextResync]_vars

(***************************************************************************)
(* SpecCreate: the Dashboard creates sites (part_004 lines 650-729).       *)
(***************************************************************************)
\* The ids generateSiteId can hand out, and what the title field can hold.
SiteIds == {"s1", "s2", "s3"}
Titles == {"", " ", "t"}

\* String.prototype.trim on the titles above.
Trim(t) == IF t = " " THEN "" ELSE t

\* An id generator that can hand out an id again.
generateSiteIdAgain(issued) == SiteIds

\* storage.ts 91-93: crypto.randomUUID(), an id that was not handed out before.
generateSiteId(issued) == SiteIds \ issued

\* cloudSync.ts 360-382: the ids of the rows of the user; a failed select is
\* caught and an empty list returned.
loadSitesFromCloud(rs, userId, ok) ==
  IF ok THEN {id \in DOMAIN rs : rs[id].user_id = userId} ELSE {}

\* cloudSync.ts 417-431 on device d: downloadSiteFromCloud of every site.
DownloadAll(fs, d, ids, objs, userId) ==
  [fs EXCEPT ![d] =
     [s \in DOMAIN fs[d] |->
        IF s \in ids
          THEN [exists |-> TRUE,
                tree |-> downloadSiteFromCloud(
                           getSiteOPFSDirectory(fs, d, s)[d][s].tree, objs, userId, s).tree]
          ELSE fs[d][s]]]

\* part_004 lines 666-690, loadSites from the select on: the list is set, and
\* the first non-empty list of a mounted Dashboard starts initialCloudSync.
AfterLoadSites(ok) ==
  LET cloudSites == loadSitesFromCloud(rows, TheUser, ok)
      first == ~dash.hasInitialSynced /\ cloudSites # {}
  IN [sites |-> cloudSites,
      hasInitialSynced |-> dash.hasInitialSynced \/ first,
      opfs |-> IF first
                 THEN DownloadAll(opfs, PageDevice, cloudSites, objects, TheUser)
                 ELSE opfs]

\* part_004 line 845: the title field of the dialog.
setNewSiteTitle(t) ==
  /\ dash.route = <<"/">> /\ dash.pc = "idle"
  /\ t # dash.newSiteTitle
  /\ dash' = [dash EXCEPT !.newSiteTitle = t]
  /\ UNCHANGED <<mirrorVars, rows, siteVars, req, titleSync>>

\* part_004 lines 692-706: a blank title returns; otherwise an id is
\* generated and the upsert of the row is sent.
handleCreateSite(id) ==
  /\ dash.route = <<"/">> /\ dash.pc = "idle"
  /\ Trim(dash.newSiteTitle) # ""
  /\ id \in generateSiteId(dash.issued)
  /\ dash' = [dash EXCEPT !.pc = "upsert", !.siteId = id, !.issued = @ \cup {id}]
  /\ UNCHANGED <<mirrorVars, rows, siteVars, req, titleSync>>

\* part_004 lines 706-707: the upsert has written the row; loadSites starts.
CreateUpsertOk ==
  /\ dash.pc = "upsert"
  /\ rows' = syncSiteMetadata(rows, dash.siteId, TheUser, FALSE)
  /\ dash' = [dash EXCEPT !.pc = "loadSites"]
  /\ UNCHANGED <<mirrorVars, siteVars, req, titleSync>>

\* A failed upsert after which the page opens the site all the same.
CreateUpsertFailNavigates ==
  /\ dash.pc = "upsert"
  /\ dash' = [dash EXCEPT !.pc = "idle", !.toast = "Creation failed",
                          !.route = <<"site", dash.siteId>>]
  /\ UNCHANGED <<mirrorVars, rows, siteVars, req, titleSync>>

\* part_004 lines 719-726 and cloudSync.ts 351-356: the upsert has failed;
\* syncSiteMetadata rethrows and the catch shows 'Creation failed'.
CreateUpsertFail ==
  /\ dash.pc = "upsert"
  /\ dash' = [dash EXCEPT !.pc = "idle", !.toast = "Creation failed"]
  /\ UNCHANGED <<mirrorVars, rows, siteVars, req, titleSync>>

\* part_004 lines 707-718: loadSites has returned (it catches what it
\* throws); 'Site created', the dialog is reset, navigate(/site/{id}).
CreateLoaded(ok) ==
  /\ dash.pc = "loadSites"
  /\ LET r == AfterLoadSites(ok)
     IN /\ opfs' = r.opfs
        /\ dash' = [dash EXCEPT !.pc = "idle", !.sites = r.sites,
                                !.hasInitialSynced = r.hasInitialSynced,
                                !.toast = "Site created", !.newSiteTitle = "",
                                !.route = <<"site", dash.siteId>>]
  /\ UNCHANGED <<localSites, objects, entryOrder, up, down, del, rows, siteVars, req, titleSync>>

\* Back to "/": a fresh Dashboard; part_004 lines 661-664 call loadSites.
DashboardMount ==
  /\ dash.route # <<"/">>
  /\ dash' = [IdleDash EXCEPT !.pc = "mountLoad", !.issued = dash.issued]
  /\ UNCHANGED <<mirrorVars, rows, siteVars, req, titleSync>>

\* part_004 lines 666-690: the loadSites of the mount has returned.
MountLoaded(ok) ==
  /\ dash.pc = "mountLoad"
  /\ LET r == AfterLoadSites(ok)
     IN /\ opfs' = r.opfs
        /\ dash' = [dash EXCEPT !.pc = "idle", !.sites = r.sites,
                                !.hasInitialSynced = r.hasInitialSynced]
  /\ UNCHANGED <<localSites, objects, entryOrder, up, down, del, rows, siteVars, req, titleSync>>

InitCreate ==
  /\ opfs = [d \in Devices |-> [s \in SiteIds |-> NoDir]]
  /\ localSites = [d \in Devices |-> <<>>]
  /\ rows = [s \in {} |-> [user_id |-> TheUser, is_initialized |-> FALSE]]
  /\ objects = [k \in {} |-> FileData("")]
  /\ entryOrder = NameOrder
  /\ up = IdleUp
  /\ down = IdleDown
  /\ del = IdleDel
  /\ mounted = FALSE /\ site = NoSite /\ isLoading = TRUE /\ isInitializing = FALSE
  /\ error = "none" /\ playgroundClient = FALSE /\ syncStatus = "offline"
  /\ isBarHidden = FALSE /\ loadPc = "idle" /\ initPc = "idle"
  /\ debounceTimers = {} /\ syncDebounceRef = -1 /\ initialSyncTimer = -1
  /\ syncInterval = -1 /\ inflight = NoRuns /\ hist = NoHist
  /\ dash = [IdleDash EXCEPT !.pc = "mountLoad"]
  /\ req = NoReq
  /\ titleSync = IdleTitle

NextCreate ==
  \/ \E t \in Titles : setNewSiteTitle(t)
  \/ \E id \in SiteIds : handleCreateSite(id)
  \/ CreateUpsertOk
  \/ CreateUpsertFail
  \/ \E ok \in BOOLEAN : CreateLoaded(ok)
  \/ DashboardMount
  \/ \E ok \in BOOLEAN : MountLoaded(ok)

SpecCreate == InitCreate /\ [][NextCreate]_vars

(***************************************************************************)
(* SpecLive: an open, initialized site whose storage calls all succeed.    *)
(* The runs of SpecSite, with the upload of a run writing the files.       *)
(***************************************************************************)
LiveTree == [p \in {<<"b">>} |-> FileEntry(FileData("x"))]

RECURSIVE PutAll(_, _, _, _)
PutAll(objs, files, userId, siteId) ==
  IF files = <<>> THEN objs
  ELSE PutAll(Put(objs, StorageKey(userId, siteId, Head(files).path), Head(files).data),
              Tail(files), userId, siteId)

\* cloudSync.ts 194-259 with every write succeeding: the files in the order
\* of the walk, then the manifest.
uploadSiteToCloud(objs, t, order, userId, siteId) ==
  LET w == walk(t, order)
  IN Put(PutAll(objs, w.files, userId, siteId), ManifestKey(userId, siteId),
         ManifestData(PathsOf(w.files), w.dirs))

\* part_003 lines 437-438: the flush and the upload of a debounced run have
\* returned; the metadata upsert is awaited next.
RunUploadOk ==
  /\ inflight[<<"debounced", 1>>] > 0
  /\ LET fs == getSiteOPFSDirectory(opfs, PageDevice, TheSite)
     IN /\ opfs' = fs
        /\ objects' = uploadSiteToCloud(objects, fs[PageDevice][TheSite].tree,
                                        entryOrder, TheUser, TheSite)
  /\ inflight' = [inflight EXCEPT ![<<"debounced", 1>>] = @ - 1,
                                  ![<<"debounced", 2>>] = @ + 1]
  /\ hist' = [hist EXCEPT !.ev = "none", !.covered = 0, !.firstSync = TRUE]
  /\ UNCHANGED <<localSites, rows, entryOrder, up, down, del, pageVars, timerVars,
                 cloudVars>>

InitLive ==
  /\ opfs = [d \in Devices |-> [s \in Sites |-> IF d = PageDevice THEN DirOf(LiveTree) ELSE NoDir]]
  /\ localSites = [d \in Devices |-> <<>>]
  /\ rows = [s \in {TheSite} |-> [user_id |-> TheUser, is_initialized |-> TRUE]]
  /\ objects = [k \in {} |-> FileData("")]
  /\ entryOrder = NameOrder
  /\ up = IdleUp
  /\ down = IdleDown
  /\ del = IdleDel
  /\ mounted = TRUE
  /\ site = [loaded |-> TRUE, isInitialized |-> TRUE]
  /\ isLoading = FALSE
  /\ isInitializing = FALSE
  /\ error = "none"
  /\ playgroundClient = TRUE
  /\ syncStatus = "synced"
  /\ isBarHidden = FALSE
  /\ loadPc = "idle"
  /\ initPc = "idle"
  /\ debounceTimers = {}
  /\ syncDebounceRef = -1
  /\ initialSyncTimer = -1
  /\ syncInterval = SYNC_INTERVAL_SECONDS
  /\ inflight = NoRuns
  /\ hist = NoHist
  /\ dash = IdleDash
  /\ req = NoReq
  /\ titleSync = IdleTitle

NextLive ==
  \/ Tick
  \/ IntervalFire
  \/ DebounceFire
  \/ RunUploadOk
  \/ RunStepOk("debounced", 2)
  \/ \E p \in RelPaths, b \in Bytes : syncMemfsToOPFS(PageDevice, p, b)

\* Time passes, a timeout or interval that is due runs, and an awaited call
\* returns; nothing is assumed about the changes of the runtime.
SpecLive ==
  /\ InitLive /\ [][NextLive]_vars
  /\ WF_vars(Tick) /\ WF_vars(IntervalFire) /\ WF_vars(DebounceFire)
  /\ WF_vars(RunUploadOk) /\ WF_vars(RunStepOk("debounced", 2))

(***************************************************************************)
(* SpecFrame: the calls of SpecMirror for user u1 and site s1, in a cloud   *)
(* and on devices that also hold another site of u1 and a site of u2.      *)
(***************************************************************************)
OtherTree == [p \in {<<"z">>} |-> FileEntry(FileData("y"))]

\* Objects outside u1/s1/: another site of the user, and another user's
\* folder with the same site segment.
OtherObjects ==
  [k \in {<<"u1", "s2", "z">>, <<"u1", "s2", MANIFEST_NAME>>,
          <<"u2", "s1", "z">>, <<"u2", "s1", MANIFEST_NAME>>} |->
     IF k[3] = MANIFEST_NAME THEN ManifestData(<< <<"z">> >>, <<>>) ELSE FileData("y")]

OtherRows ==
  [id \in {"s2", "s3"} |->
     [user_id |-> IF id = "s2" THEN "u1" ELSE "u2", is_initialized |-> TRUE]]

InitFrame ==
  /\ \E here \in {NoDir} \cup {DirOf(t) : t \in InitialTrees},
        there \in {NoDir, DirOf([p \in {<<"a">>} |-> FileEntry(FileData("x"))])} :
       opfs = [d \in Devices |-> [s \in {"s1", "s2"} |->
                 IF s = "s2" THEN DirOf(OtherTree)
                 ELSE IF d = PageDevice THEN here ELSE there]]
  /\ localSites = [d \in Devices |-> <<"s2", TheSite>>]
  /\ rows = [id \in {"s1", "s2", "s3"} |->
               IF id = TheSite THEN [user_id |-> TheUser, is_initialized |-> FALSE]
               ELSE OtherRows[id]]
  /\ objects = OtherObjects
  /\ entryOrder = NameOrder
  /\ up = IdleUp
  /\ down = IdleDown
  /\ del = IdleDel
  /\ PageIdle

SpecFrame == InitFrame /\ [][NextMirror]_vars

(***************************************************************************)
(* SpecPolicy: requests of signed-in users against the row level security  *)
(* of public.sites and the policies of storage.objects (the two            *)
(* migrations).  Policies of one command are permissive: one suffices.     *)
(***************************************************************************)
Users == {"u1", "u2"}
RowIds == {"s1", "s2"}
BUCKET == "wordpress-sites"
Buckets == {BUCKET, "avatars"}
ObjectNames == {<<"u1", "s1", "b">>, <<"u2", "s1", "b">>, <<"u1">>}

\* auth.role() of a request that carries the token of a signed-in user.
auth_role(uid) == IF uid \in Users THEN "authenticated" ELSE "anon"

\* storage.foldername(name): the segments of the name without the last.
foldername(name) == SubSeq(name, 1, Len(name) - 1)

\* A policy of storage.objects without the comparison of the folder.
ObjectPolicyAnyFolder(uid, bucket, name) == bucket = BUCKET

\* First migration lines 72-98 and second migration lines 5-48: the same
\* expression for insert, select, update and delete; the second adds
\* auth.role() = 'authenticated'.  (foldername)[1] of a name without a folder
\* is null, and the comparison is not true.
ObjectPolicy(uid, bucket, name) ==
  LET own == Len(foldername(name)) >= 1 /\ foldername(name)[1] = uid
  IN \/ bucket = BUCKET /\ own
     \/ bucket = BUCKET /\ auth_role(uid) = "authenticated" /\ own

\* First migration lines 51-65: using / with check (auth.uid() = user_id).
SitesPolicy(uid, row) == uid = row.user_id

Answered(u, op, target, allowed, answer) ==
  [user |-> u, op |-> op, target |-> target, allowed |-> allowed, answer |-> answer]

\* select * from sites: the rows the select policy lets through.
SelectSites(u) ==
  /\ req' = Answered(u, "select", <<"sites">>, TRUE,
                     {id \in DOMAIN rows : SitesPolicy(u, rows[id])})
  /\ UNCHANGED <<mirrorVars, rows, siteVars, dash, titleSync>>

\* insert into sites: the new row must pass the check, and the primary key
\* (first migration line 38) rejects an id that is there.
InsertSite(u, id, owner) ==
  LET row == [user_id |-> owner, is_initialized |-> FALSE]
      ok == SitesPolicy(u, row) /\ id \notin DOMAIN rows
  IN /\ rows' = IF ok THEN Put(rows, id, row) ELSE rows
     /\ req' = Answered(u, "insert", <<"sites", id>>, ok, {})
     /\ UNCHANGED <<mirrorVars, siteVars, dash, titleSync>>

\* update sites ... where id = ...: only rows that pass using are seen, and
\* the new row must pass it too (an update policy without with check).
UpdateSite(u, id, owner, init) ==
  LET row == [user_id |-> owner, is_initialized |-> init]
      seen == id \in DOMAIN rows /\ SitesPolicy(u, rows[id])
      ok == seen /\ SitesPolicy(u, row)
  IN /\ rows' = IF ok THEN Put(rows, id, row) ELSE rows
     /\ req' = Answered(u, "update", <<"sites", id>>, ok, {})
     /\ UNCHANGED <<mirrorVars, siteVars, dash, titleSync>>

\* delete from sites where id = ...
DeleteSite(u, id) ==
  LET ok == id \in DOMAIN rows /\ SitesPolicy(u, rows[id])
  IN /\ rows' = IF ok THEN Without(rows, {id}) ELSE rows
     /\ req' = Answered(u, "delete", <<"sites", id>>, ok, {})
     /\ UNCHANGED <<mirrorVars, siteVars, dash, titleSync>>

\* storage download / list: the objects the select policy lets through.
SelectObjects(u, bucket) ==
  /\ req' = Answered(u, "select", <<bucket>>, TRUE,
                     IF bucket = BUCKET
                       THEN {k \in DOMAIN objects : ObjectPolicy(u, bucket, k)}
                       ELSE {})
  /\ UNCHANGED <<mirrorVars, rows, siteVars, dash, titleSync>>

\* storage upload with upsert: an insert, or an update of the object there.
UpsertObject(u, bucket, name, b) ==
  LET ok == ObjectPolicy(u, bucket, name)
  IN /\ objects' = IF ok THEN Put(objects, name, FileData(b)) ELSE objects
     /\ req' = Answered(u, "upsert", <<bucket>> \o name, ok, {})
     /\ UNCHANGED <<opfs, localSites, entryOrder, up, down, del, rows, siteVars, dash, titleSync>>

\* storage remove.
RemoveObject(u, bucket, name) ==
  LET ok == name \in DOMAIN objects /\ ObjectPolicy(u, bucket, name)
  IN /\ objects' = IF ok THEN Without(objects, {name}) ELSE objects
     /\ req' = Answered(u, "remove", <<bucket>> \o name, ok, {})
     /\ UNCHANGED <<opfs, localSites, entryOrder, up, down, del, rows, siteVars, dash, titleSync>>

InitPolicy ==
  /\ opfs = [d \in Devices |-> [s \in Sites |-> NoDir]]
  /\ localSites = [d \in Devices |-> <<>>]
  /\ rows = [s \in {} |-> [user_id |-> TheUser, is_initialized |-> FALSE]]
  /\ objects = [k \in {} |-> FileData("")]
  /\ entryOrder = NameOrder
  /\ up = IdleUp
  /\ down = IdleDown
  /\ del = IdleDel
  /\ PageIdle

NextPolicy ==
  \/ \E u \in Users : SelectSites(u)
  \/ \E u \in Users, id \in RowIds, owner \in Users : InsertSite(u, id, owner)
  \/ \E u \in Users, id \in RowIds, owner \in Users, init \in BOOLEAN :
       UpdateSite(u, id, owner, init)
  \/ \E u \in Users, id \in RowIds : DeleteSite(u, id)
  \/ \E u \in Users, bucket \in Buckets : SelectObjects(u, bucket)
  \/ \E u \in Users, bucket \in Buckets, name \in ObjectNames, b \in Bytes :
       UpsertObject(u, bucket, name, b)
  \/ \E u \in Users, bucket \in Buckets, name \in ObjectNames :
       RemoveObject(u, bucket, name)

SpecPolicy == InitPolicy /\ [][NextPolicy]_vars

(***************************************************************************)
(* SpecIds: the local metadata list of each device (storage.ts 55-93) and  *)
(* the rows of public.sites, created, renamed and deleted.  Here a list    *)
(* holds records [id, title], and rows holds the table as a set of         *)
(* records, so that two entries with one id can be told apart.             *)
(***************************************************************************)
SiteTitles == {"t", "u"}

\* storage.ts 56-60: the site is pushed to the list.
addSite(sites, newSite) == Append(sites, newSite)

\* storage.ts 63-70: findIndex takes the first entry with the id; the
\* updates of the callers carry title and lastModified.
updateSite(sites, siteId, title) ==
  LET found == {i \in 1..Len(sites) : sites[i].id = siteId}
  IN IF found = {} THEN sites
     ELSE LET siteIndex == CHOOSE i \in found : \A j \in found : i <= j
          IN [sites EXCEPT ![siteIndex].title = title]

\* storage.ts 76-78: every entry with the id is filtered out.
deleteSite(sites, siteId) ==
  LET Keep(x) == x.id # siteId
  IN SelectSeq(sites, Keep)

\* An insert that does not look at the rows that are there.
upsertRowBlind(table, row) == table \cup {row}

\* cloudSync.ts 338-349 and the primary key of public.sites (first migration
\* line 38): upsert is insert ... on conflict (id) do update.
upsertRow(table, row) == {r \in table : r.id # row.id} \cup {row}

\* Dashboard (local), part_004 lines 472-487: a generated id, addSite.
LocalCreate(d, id, t) ==
  /\ id \in generateSiteId(dash.issued)
  /\ localSites' = [localSites EXCEPT ![d] = addSite(@, [id |-> id, title |-> t])]
  /\ dash' = [dash EXCEPT !.issued = @ \cup {id}]
  /\ UNCHANGED <<opfs, objects, entryOrder, up, down, del, rows, siteVars, req, titleSync>>

\* SiteCard.tsx lines 33-47: the card of a listed site renames it.
LocalRename(d, i, t) ==
  /\ i \in 1..Len(localSites[d])
  /\ t # localSites[d][i].title
  /\ localSites' = [localSites EXCEPT ![d] = updateSite(@, localSites[d][i].id, t)]
  /\ UNCHANGED <<opfs, objects, entryOrder, up, down, del, rows, siteVars, cloudVars>>

\* storage.ts 73-88: the card of a listed site deletes it; the entry and the
\* directory go.
LocalDelete(d, i) ==
  /\ i \in 1..Len(localSites[d])
  /\ localSites' = [localSites EXCEPT ![d] = deleteSite(@, localSites[d][i].id)]
  /\ opfs' = [opfs EXCEPT ![d][localSites[d][i].id] = NoDir]
  /\ UNCHANGED <<objects, entryOrder, up, down, del, rows, siteVars, cloudVars>>

\* Dashboard (cloud), part_004 lines 697-706: a generated id, the upsert.
CloudCreate(id, t) ==
  /\ id \in generateSiteId(dash.issued)
  /\ rows' = upsertRow(rows, [id |-> id, user_id |-> TheUser, title |-> t])
  /\ dash' = [dash EXCEPT !.issued = @ \cup {id}]
  /\ UNCHANGED <<mirrorVars, siteVars, req, titleSync>>

\* SiteCard (cloud), part_007 lines 57-67: the upsert of a listed row with
\* the new title.
CloudRename(id, t) ==
  /\ \E r \in rows :
       /\ r.id = id /\ r.user_id = TheUser
       /\ t # r.title
       /\ rows' = upsertRow(rows, [r EXCEPT !.title = t])
  /\ UNCHANGED <<mirrorVars, siteVars, cloudVars>>

\* cloudSync.ts 387-391: delete ... where id = ... and user_id = ...
CloudDelete(id) ==
  /\ \E r \in rows : r.id = id
  /\ rows' = {x \in rows : ~(x.id = id /\ x.user_id = TheUser)}
  /\ UNCHANGED <<mirrorVars, siteVars, cloudVars>>

InitIds ==
  /\ opfs = [d \in Devices |-> [s \in SiteIds |-> NoDir]]
  /\ localSites = [d \in Devices |-> <<>>]
  /\ rows = {}
  /\ objects = [k \in {} |-> FileData("")]
  /\ entryOrder = NameOrder
  /\ up = IdleUp
  /\ down = IdleDown
  /\ del = IdleDel
  /\ PageIdle

NextIds ==
  \/ \E d \in Devices, id \in SiteIds, t \in SiteTitles : LocalCreate(d, id, t)
  \/ \E d \in Devices, i \in 1..Cardinality(SiteIds), t \in SiteTitles : LocalRename(d, i, t)
  \/ \E d \in Devices, i \in 1..Cardinality(SiteIds) : LocalDelete(d, i)
  \/ \E id \in SiteIds, t \in SiteTitles : CloudCreate(id, t)
  \/ \E id \in SiteIds, t \in SiteTitles : CloudRename(id, t)
  \/ \E id \in SiteIds : CloudDelete(id)

SpecIds == InitIds /\ [][NextIds]_vars

(***************************************************************************)
(* SpecGone: an open, synced site is left or stays open, and is deleted    *)
(* from a Dashboard (the one of this tab after Back, or another device).   *)
(***************************************************************************)
\* part_007 lines 84-98 with every call succeeding: deleteSiteFromCloud (row,
\* list, remove), deleteLocalSite (list entry, directory), 'Site deleted'.
\* The Dashboard of the page's device is shown when the Site page is not.
handleDelete(d) ==
  /\ del.pc = "idle"
  /\ TheSite \in DOMAIN rows
  /\ d = PageDevice => ~mounted
  /\ LET names == ListNames(objects, SitePrefix(TheUser, TheSite))
     IN /\ rows' = Without(rows, {r \in DOMAIN rows : r = TheSite /\ rows[r].user_id = TheUser})
        /\ objects' = Without(objects, FilePaths(TheUser, TheSite, names))
        /\ del' = [IdleDel EXCEPT !.pc = "done", !.dev = d, !.listed = names,
                                  !.result = "success"]
  /\ localSites' = [localSites EXCEPT ![d] = FilterOut(@, TheSite)]
  /\ opfs' = [opfs EXCEPT ![d][TheSite] = NoDir]
  /\ UNCHANGED <<entryOrder, up, down, siteVars, cloudVars>>

InitGone ==
  /\ opfs = [d \in Devices |-> [s \in Sites |-> IF d = PageDevice THEN DirOf(LiveTree) ELSE NoDir]]
  /\ localSites = [d \in Devices |-> <<>>]
  /\ rows = [s \in {TheSite} |-> [user_id |-> TheUser, is_initialized |-> TRUE]]
  /\ objects = uploadSiteToCloud([k \in {} |-> FileData("")], LiveTree, NameOrder,
                                 TheUser, TheSite)
  /\ entryOrder = NameOrder
  /\ up = IdleUp
  /\ down = IdleDown
  /\ del = IdleDel
  /\ mounted = TRUE
  /\ site = [loaded |-> TRUE, isInitialized |-> TRUE]
  /\ isLoading = FALSE
  /\ isInitializing = FALSE
  /\ error = "none"
  /\ playgroundClient = TRUE
  /\ syncStatus = "synced"
  /\ isBarHidden = FALSE
  /\ loadPc = "idle"
  /\ initPc = "idle"
  /\ debounceTimers = {}
  /\ syncDebounceRef = -1
  /\ initialSyncTimer = -1
  /\ syncInterval = SYNC_INTERVAL_SECONDS
  /\ inflight = NoRuns
  /\ hist = NoHist
  /\ dash = IdleDash
  /\ req = NoReq
  /\ titleSync = IdleTitle

NextGone ==
  \/ Tick
  \/ IntervalFire
  \/ DebounceFire
  \/ RunUploadOk
  \/ RunStepOk("debounced", 2)
  \/ BackWithSync
  \/ \E pos \in 1..2 : RunStepOk("final", pos)
  \/ \E d \in Devices : handleDelete(d)

SpecGone == InitGone /\ [][NextGone]_vars

(***************************************************************************)
(* SpecRename: a Site page holds the site it loaded while the cards of a   *)
(* Dashboard (another tab or device) rename it.  rows is the table as a    *)
(* set of records, site carries the title the page loaded, dash.sites the  *)
(* cards, and req the last write that reached the table.                   *)
(***************************************************************************)
\* The writes of one behaviour are counted up to this stamp.
MaxStamp == 4

\* new Date() of a write to the table: a time later than every time stored.
\* A row that was never stamped holds 0 (last_synced_at is nullable, first
\* migration line 44).
Now(table) ==
  LET stamps == {r.last_synced_at : r \in table} \cup {0}
  IN 1 + CHOOSE m \in stamps : \A n \in stamps : n <= m

\* cloudSync.ts 338-349: the row that the upsert of a site object writes;
\* last_synced_at is the time of the call.
RowOf(s, userId, now) ==
  [id |-> s.id, user_id |-> userId, title |-> s.title, last_synced_at |-> now]

\* part_003 lines 119-149 for a site that is found, and the initialization
\* that follows for an initialized site: the page stores the site object as
\* the select returned it, and a client.
loadSite ==
  /\ ~mounted
  /\ \E r \in rows :
       /\ r.id = TheSite /\ r.user_id = TheUser
       /\ site' = [loaded |-> TRUE, isInitialized |-> TRUE, id |-> r.id, title |-> r.title]
  /\ mounted' = TRUE
  /\ playgroundClient' = TRUE
  /\ isLoading' = FALSE
  /\ UNCHANGED <<mirrorVars, rows, cloudVars, isInitializing, error, syncStatus,
                 isBarHidden, loadPc, initPc, timerVars, inflight, hist>>

\* part_004 lines 666-673: loadSites of the Dashboard sets the cards from the
\* select (cloudSync.ts 360-382).
loadSites ==
  /\ dash' = [dash EXCEPT !.sites = {[id |-> r.id, title |-> r.title] :
                                       r \in {x \in rows : x.user_id = TheUser}}]
  /\ UNCHANGED <<mirrorVars, rows, siteVars, req, titleSync>>

\* part_007 lines 57-67: the card of a listed site upserts the card's site
\* with the trimmed new title; 'Site renamed'.
handleRename(newTitle) ==
  /\ \E c \in dash.sites :
       /\ c.id = TheSite
       /\ ~(Trim(newTitle) = "" \/ newTitle = c.title)
       /\ Now(rows) <= MaxStamp
       /\ rows' = upsertRow(rows, RowOf([c EXCEPT !.title = Trim(newTitle)], TheUser,
                                        Now(rows)))
       /\ req' = Answered(TheUser, "rename", <<c.id>>, TRUE, {Trim(newTitle)})
  /\ dash' = [dash EXCEPT !.toast = "Site renamed"]
  /\ UNCHANGED <<mirrorVars, siteVars, titleSync>>

\* Dashboard, part_004 lines 692-708: a second site is created: the upsert of
\* the new site object with the trimmed title, then loadSites.
CreateSiteRow(id, newSiteTitle) ==
  /\ Trim(newSiteTitle) # ""
  /\ \A r \in rows : r.id # id
  /\ Now(rows) <= MaxStamp
  /\ rows' = upsertRow(rows, RowOf([id |-> id, title |-> Trim(newSiteTitle)], TheUser,
                                   Now(rows)))
  /\ req' = Answered(TheUser, "create", <<id>>, TRUE, {})
  /\ dash' = [dash EXCEPT !.toast = "Site created",
                          !.sites = {[id |-> r.id, title |-> r.title] :
                                       r \in {x \in rows' : x.user_id = TheUser}}]
  /\ UNCHANGED <<mirrorVars, siteVars, titleSync>>

\* part_007 lines 68-74: the upsert throws; 'Rename failed'.
handleRenameFail(newTitle) ==
  /\ \E c \in dash.sites :
       /\ c.id = TheSite
       /\ ~(Trim(newTitle) = "" \/ newTitle = c.title)
  /\ dash' = [dash EXCEPT !.toast = "Rename failed"]
  /\ UNCHANGED <<mirrorVars, rows, siteVars, req, titleSync>>

\* The metadata upsert that ends a sync run of the page: part_003 line 438 of
\* the debounced run (started by the 30 s interval or by Save), line 463 of
\* handleBack, which then navigates.  The runs pass the site of the page; req
\* keeps the titles the table held for the site before the write.
SyncMetadata(kind) ==
  /\ mounted /\ site.loaded /\ site.isInitialized /\ playgroundClient
  /\ \E r \in rows : r.id = site.id
  /\ Now(rows) <= MaxStamp
  /\ rows' = upsertRow(rows, RowOf(site, TheUser, Now(rows)))
  /\ req' = Answered(TheUser, "sync", <<site.id, kind>>, TRUE,
                     {r.title : r \in {x \in rows : x.id = site.id}})
  /\ mounted' = (kind # "final")
  /\ UNCHANGED <<mirrorVars, dash, titleSync, site, isLoading, isInitializing, error,
                 playgroundClient, syncStatus, isBarHidden, loadPc, initPc,
                 timerVars, inflight, hist>>

InitRename ==
  /\ opfs = [d \in Devices |-> [s \in Sites |-> NoDir]]
  /\ localSites = [d \in Devices |-> <<>>]
  /\ \E t \in SiteTitles : rows = {RowOf([id |-> TheSite, title |-> t], TheUser, 1)}
  /\ objects = [k \in {} |-> FileData("")]
  /\ entryOrder = NameOrder
  /\ up = IdleUp
  /\ down = IdleDown
  /\ del = IdleDel
  /\ PageIdle

NextRename ==
  \/ loadSite
  \/ loadSites
  \/ \E t \in Titles : CreateSiteRow("s2", t)
  \/ \E t \in Titles \cup SiteTitles : handleRename(t)
  \/ \E t \in Titles \cup SiteTitles : handleRenameFail(t)
  \/ \E kind \in {"periodic", "manual", "final"} : SyncMetadata(kind)

SpecRename == InitRename /\ [][NextRename]_vars

(***************************************************************************)
(* SpecBoot: the site is opened again and again on two devices             *)
(* (initializePlayground, playground.ts 21-106) while it is uploaded,      *)
(* restored and saved.  hist.install is the decision of the last call,     *)
(* hist.marked the devices on which a call installed WordPress and wrote    *)
(* core.marker.                                                            *)
(***************************************************************************)
\* The whole call on device d with the runtime starting: the decision (lines
\* 29-52, 71), and after an install the marker (lines 84-98), whose write can
\* fail with a warning only.
initializePlayground(d, isInitialized, markerWritten) ==
  /\ TheSite \in DOMAIN rows
  /\ up.pc \in {"idle", "done", "failed"}
  /\ LET install == shouldInstallWordPress(opfs, d, TheSite, isInitialized)
     IN /\ opfs' = AfterStart(opfs, d, TheSite, install /\ markerWritten)
        /\ hist' = [hist EXCEPT !.ev = "open", !.install = install,
                                !.marked = IF install /\ markerWritten
                                             THEN @ \cup {d} ELSE @]
  /\ UNCHANGED <<localSites, rows, objects, entryOrder, up, down, del, pageVars,
                 timerVars, inflight, cloudVars>>

\* The whole call with startPlaygroundWeb throwing (lines 66-73, 102-105):
\* the decision was made, nothing is written.
initializePlaygroundThrows(d, isInitialized) ==
  /\ TheSite \in DOMAIN rows
  /\ up.pc \in {"idle", "done", "failed"}
  /\ hist' = [hist EXCEPT !.ev = "openFailed",
                          !.install = shouldInstallWordPress(opfs, d, TheSite, isInitialized)]
  /\ UNCHANGED <<mirrorVars, rows, pageVars, timerVars, inflight, cloudVars>>

InitBoot ==
  /\ opfs \in [Devices -> [Sites -> {NoDir, DirOf(LiveTree)}]]
  /\ localSites = [d \in Devices |-> <<TheSite>>]
  /\ rows = [s \in {TheSite} |-> [user_id |-> TheUser, is_initialized |-> FALSE]]
  /\ objects = [k \in {} |-> FileData("")]
  /\ entryOrder = NameOrder
  /\ up = IdleUp
  /\ down = IdleDown
  /\ del = IdleDel
  /\ PageIdle

NextBoot ==
  \/ \E d \in Devices, i, m \in BOOLEAN : initializePlayground(d, i, m)
  \/ \E d \in Devices, i \in BOOLEAN : initializePlaygroundThrows(d, i)
  \/ UploadStart(PageDevice)
  \/ UploadFileOk
  \/ UploadManifestOk
  \/ \E d \in Devices : LoadSiteRestore(d)
  \/ \E p \in RelPaths, b \in Bytes : syncMemfsToOPFS(PageDevice, p, b)

SpecBoot == InitBoot /\ [][NextBoot]_vars

(***************************************************************************)
(* SpecLoads: one mounted Dashboard whose loadSites (part_004 666-690) is  *)
(* invoked while earlier invocations are awaiting.  An invocation keeps    *)
(* the hasInitialSynced of the render whose closure it is; isLoading is    *)
(* the Dashboard's state of that name (line 658).                          *)
(***************************************************************************)
\* Invocations of loadSites awaiting at one time.
MaxLoads == 2

\* The sequence s without its element i.
DropAt(s, i) == [j \in 1..(Len(s) - 1) |-> IF j < i THEN s[j] ELSE s[j + 1]]

\* lines 666-672: an invocation sets isLoading and awaits the select.
StartLoad == Append(dash.loads, [phase |-> "select", seen |-> dash.hasInitialSynced])

\* lines 661-664: the effect on [user] runs again when the user object changes.
UserChanged ==
  /\ Len(dash.loads) < MaxLoads
  /\ dash' = [dash EXCEPT !.loads = StartLoad]
  /\ isLoading' = TRUE
  /\ UNCHANGED <<mirrorVars, rows, mounted, site, isInitializing, error, playgroundClient,
                 syncStatus, isBarHidden, loadPc, initPc, timerVars, inflight, hist, req, titleSync>>

\* line 827 and part_007 lines 67-72: a card that is shown has renamed its
\* site and calls onUpdate, which is loadSites; 'Site renamed'.
CardUpdated ==
  /\ ~isLoading /\ dash.sites # {}
  /\ Len(dash.loads) < MaxLoads
  /\ dash' = [dash EXCEPT !.loads = StartLoad, !.toast = "Site renamed"]
  /\ isLoading' = TRUE
  /\ UNCHANGED <<mirrorVars, rows, mounted, site, isInitializing, error, playgroundClient,
                 syncStatus, isBarHidden, loadPc, initPc, timerVars, inflight, hist, req, titleSync>>

\* lines 692-707 with the upsert succeeding: 'New Site' is in the header when
\* sites are listed (lines 751-759), the first-site button when nothing is
\* loading; the row is written and loadSites awaited.
SiteCreated(id) ==
  /\ dash.sites # {} \/ ~isLoading
  /\ Len(dash.loads) < MaxLoads
  /\ id \in generateSiteId(dash.issued)
  /\ rows' = syncSiteMetadata(rows, id, TheUser, FALSE)
  /\ dash' = [dash EXCEPT !.loads = StartLoad, !.issued = @ \cup {id}]
  /\ isLoading' = TRUE
  /\ UNCHANGED <<mirrorVars, mounted, site, isInitializing, error, playgroundClient,
                 syncStatus, isBarHidden, loadPc, initPc, timerVars, inflight, hist, req, titleSync>>

\* lines 672-678: the select of invocation i has returned: the list is set;
\* with rows listed and hasInitialSynced false in its closure the invocation
\* calls initialCloudSync, otherwise it ends (finally: isLoading false).
LoadSelected(i, ok) ==
  /\ i \in 1..Len(dash.loads)
  /\ dash.loads[i].phase = "select"
  /\ LET cloudSites == loadSitesFromCloud(rows, TheUser, ok)
         first == ~dash.loads[i].seen /\ cloudSites # {}
     IN /\ dash' = [dash EXCEPT !.sites = cloudSites,
                                !.loads = IF first THEN [@ EXCEPT ![i].phase = "initial"]
                                          ELSE DropAt(@, i)]
        /\ isLoading' = (first /\ isLoading)
  /\ UNCHANGED <<mirrorVars, rows, mounted, site, isInitializing, error, playgroundClient,
                 syncStatus, isBarHidden, loadPc, initPc, timerVars, inflight, hist, req, titleSync>>

\* lines 677-689: initialCloudSync of invocation i has returned
\* (setHasInitialSynced(true)) or thrown ('Failed to load sites'); finally.
LoadSynced(i, ok) ==
  /\ i \in 1..Len(dash.loads)
  /\ dash.loads[i].phase = "initial"
  /\ opfs' = IF ok
               THEN DownloadAll(opfs, PageDevice, loadSitesFromCloud(rows, TheUser, TRUE),
                                objects, TheUser)
               ELSE opfs
  /\ dash' = [dash EXCEPT !.loads = DropAt(@, i),
                          !.hasInitialSynced = @ \/ ok,
                          !.toast = IF ok THEN @ ELSE "Failed to load sites"]
  /\ isLoading' = FALSE
  /\ UNCHANGED <<localSites, objects, entryOrder, up, down, del, rows, mounted, site,
                 isInitializing, error, playgroundClient, syncStatus, isBarHidden,
                 loadPc, initPc, timerVars, inflight, hist, req, titleSync>>

\* The Dashboard has mounted and its effect has invoked loadSites.
InitLoads ==
  /\ opfs = [d \in Devices |-> [s \in SiteIds |-> NoDir]]
  /\ localSites = [d \in Devices |-> <<>>]
  /\ rows \in {[s \in {} |-> [user_id |-> TheUser, is_initialized |-> FALSE]],
               [s \in {"s1"} |-> [user_id |-> TheUser, is_initialized |-> FALSE]]}
  /\ objects = [k \in {} |-> FileData("")]
  /\ entryOrder = NameOrder
  /\ up = IdleUp
  /\ down = IdleDown
  /\ del = IdleDel
  /\ mounted = FALSE /\ site = NoSite /\ isLoading = TRUE /\ isInitializing = FALSE
  /\ error = "none" /\ playgroundClient = FALSE /\ syncStatus = "offline"
  /\ isBarHidden = FALSE /\ loadPc = "idle" /\ initPc = "idle"
  /\ debounceTimers = {} /\ syncDebounceRef = -1 /\ initialSyncTimer = -1
  /\ syncInterval = -1 /\ inflight = NoRuns /\ hist = NoHist
  /\ dash = [IdleDash EXCEPT !.loads = <<[phase |-> "select", seen |-> FALSE]>>,
                             !.issued = DOMAIN rows]
  /\ req = NoReq
  /\ titleSync = IdleTitle

NextLoads ==
  \/ UserChanged
  \/ CardUpdated
  \/ \E id \in SiteIds : SiteCreated(id)
  \/ \E i \in 1..MaxLoads + 1, ok \in BOOLEAN : LoadSelected(i, ok)
  \/ \E i \in 1..MaxLoads + 1, ok \in BOOLEAN : LoadSynced(i, ok)

SpecLoads == InitLoads /\ [][NextLoads]_vars

(***************************************************************************)
(* SpecPaths: the directory of a site as storage.ts and playground.ts open *)
(* it.  A name is the sequence of its parts between slashes (a name        *)
(* without a slash has one part), a directory is the sequence of names     *)
(* from the OPFS root, and in this specification opfs is the set of        *)
(* directories that exist on one device and req the result of the last     *)
(* call.                                                                   *)
(***************************************************************************)
\* storage.ts line 4: 'wp-studio/sites', one name with a slash in it.
SITES_ROOT_DIR == <<"wp-studio", "sites">>

\* The ids of three sites as names.
IdNames == {<<"s1">>, <<"s2">>, <<"s3">>}

\* FileSystemDirectoryHandle.getDirectoryHandle(name, {create}) on the
\* directory cur.  The File System standard rejects a name that is not a
\* valid file name (one containing a slash) with a TypeError; an engine
\* that is lenient takes it as the name of one entry.  No engine walks it
\* as a path.
getDirectoryHandle(dirs, cur, name, create, lenient) ==
  LET path == Append(cur, name)
  IN IF Len(name) # 1 /\ ~lenient
       THEN [ok |-> FALSE, dir |-> <<>>, dirs |-> dirs]
     ELSE IF path \in dirs THEN [ok |-> TRUE, dir |-> path, dirs |-> dirs]
     ELSE IF create THEN [ok |-> TRUE, dir |-> path, dirs |-> dirs \cup {path}]
     ELSE [ok |-> FALSE, dir |-> <<>>, dirs |-> dirs]

\* The calls one after the other from the root; a call that throws ends them.
RECURSIVE OpenAlong(_, _, _, _, _)
OpenAlong(dirs, cur, names, create, lenient) ==
  IF names = <<>> THEN [ok |-> TRUE, dir |-> cur, dirs |-> dirs]
  ELSE LET r == getDirectoryHandle(dirs, cur, Head(names), create, lenient)
       IN IF r.ok THEN OpenAlong(r.dirs, r.dir, Tail(names), create, lenient)
          ELSE r

\* storage.ts 96-100: getDirectoryHandle(SITES_ROOT_DIR), then the id.
SiteDirNames(siteId) == <<SITES_ROOT_DIR, siteId>>

\* playground.ts 32-35, 86-89, 122-124: 'wp-studio', then 'sites', then the id.
PlaygroundDirNames(siteId) == <<<<"wp-studio">>, <<"sites">>, siteId>>

\* storage.ts 96-100, called by uploadSiteToCloud (cloudSync.ts 199) and
\* downloadSiteFromCloud (cloudSync.ts 270).
OpenForMirror(siteId, lenient) ==
  /\ LET r == OpenAlong(opfs, <<>>, SiteDirNames(siteId), TRUE, lenient)
     IN /\ opfs' = r.dirs
        /\ req' = Answered("d1", "getSiteOPFSDirectory", <<siteId>>, r.ok, {r.dir})
  /\ UNCHANGED <<localSites, objects, entryOrder, up, down, del, rows, siteVars, dash, titleSync>>

\* playground.ts 30-47: the check for the marker, which creates nothing.
OpenForCheck(siteId, lenient) ==
  /\ LET r == OpenAlong(opfs, <<>>, PlaygroundDirNames(siteId), FALSE, lenient)
     IN req' = Answered("d1", "initializePlayground", <<siteId>>, r.ok, {r.dir})
  /\ UNCHANGED <<mirrorVars, rows, siteVars, dash, titleSync>>

\* playground.ts 84-98 (the marker after an install) and 119-129 (meta.json of
\* syncMemfsToOPFS): the directories are created on the way.
OpenForWrite(siteId, lenient) ==
  /\ LET r == OpenAlong(opfs, <<>>, PlaygroundDirNames(siteId), TRUE, lenient)
     IN /\ opfs' = r.dirs
        /\ req' = Answered("d1", "syncMemfsToOPFS", <<siteId>>, r.ok, {r.dir})
  /\ UNCHANGED <<localSites, objects, entryOrder, up, down, del, rows, siteVars, dash, titleSync>>

\* An origin whose OPFS holds any of the directories the calls can make.
InitPaths ==
  /\ \E ids \in SUBSET IdNames, literal \in BOOLEAN :
       opfs = {<<<<"wp-studio">>>>, <<<<"wp-studio">>, <<"sites">>>>}
              \cup {PlaygroundDirNames(id) : id \in ids}
              \cup (IF literal THEN {<<SITES_ROOT_DIR>>} ELSE {})
  /\ localSites = [d \in Devices |-> <<>>]
  /\ rows = << >>
  /\ objects = [k \in {} |-> FileData("")]
  /\ entryOrder = NameOrder
  /\ up = IdleUp
  /\ down = IdleDown
  /\ del = IdleDel
  /\ PageIdle

NextPaths ==
  \/ \E id \in IdNames, lenient \in BOOLEAN : OpenForMirror(id, lenient)
  \/ \E id \in IdNames, lenient \in BOOLEAN : OpenForCheck(id, lenient)
  \/ \E id \in IdNames, lenient \in BOOLEAN : OpenForWrite(id, lenient)

SpecPaths == InitPaths /\ [][NextPaths]_vars

(***************************************************************************)
(* SpecTitle: a Site page that stays open: loadSite, initializeWordPress   *)
(* and the title update it starts (part_003 180-224 and 296-314).  A       *)
(* timeout that is pending runs, and client.run returns or throws.         *)
(***************************************************************************)
\* line 215: if (attempt < 3)
MAX_TITLE_ATTEMPTS == 3

\* lines 224, 216 and 305: the timeout of an attempt runs: client.run is
\* called with the PHP code.
TitleAttempt ==
  /\ titleSync.pc = "wait"
  /\ titleSync' = [titleSync EXCEPT !.pc = "run"]
  /\ UNCHANGED <<mirrorVars, rows, siteVars, dash, req>>

\* lines 191-210 and 308-309: client.run has returned (the SQLite fallback and
\* goTo are caught on their own); the overlay is cleared 500 ms later.
TitleRunOk ==
  /\ titleSync.pc = "run"
  /\ titleSync' = [titleSync EXCEPT !.pc = "clearing"]
  /\ UNCHANGED <<mirrorVars, rows, siteVars, dash, req>>

\* A third failure after which nothing is scheduled.
TitleRunFailKeepsOverlay ==
  /\ titleSync.pc = "run"
  /\ titleSync' =
       IF titleSync.path = "first" /\ titleSync.attempt < MAX_TITLE_ATTEMPTS
         THEN [titleSync EXCEPT !.pc = "wait", !.attempt = @ + 1, !.failed = @ + 1]
         ELSE [titleSync EXCEPT !.pc = "done", !.failed = @ + 1]
  /\ UNCHANGED <<mirrorVars, rows, siteVars, dash, req>>

\* lines 211-220: client.run has thrown: before the third attempt the next
\* one is set attempt * 500 ms ahead, after it the overlay is cleared 500 ms
\* later; lines 310-311: the update of the retry path is not repeated.
TitleRunFail ==
  /\ titleSync.pc = "run"
  /\ titleSync' =
       IF titleSync.path = "first" /\ titleSync.attempt < MAX_TITLE_ATTEMPTS
         THEN [titleSync EXCEPT !.pc = "wait", !.attempt = @ + 1, !.failed = @ + 1]
         ELSE [titleSync EXCEPT !.pc = "clearing", !.failed = @ + 1]
  /\ UNCHANGED <<mirrorVars, rows, siteVars, dash, req>>

\* lines 210, 218, 309, 311: setIsTitleSyncing(false).
TitleCleared ==
  /\ titleSync.pc = "clearing"
  /\ titleSync' = [titleSync EXCEPT !.pc = "done",
                                    !.isTitleSyncing = SetState(mounted, FALSE, @)]
  /\ UNCHANGED <<mirrorVars, rows, siteVars, dash, req>>

\* The rows, with the site initialized or not, and a directory that holds
\* the marker or nothing; the Dashboard is shown.
InitTitle ==
  /\ \E t \in {EmptyTree, AfterStart([d \in Devices |-> [s \in Sites |-> NoDir]],
                                      PageDevice, TheSite, TRUE)[PageDevice][TheSite].tree} :
       opfs = [d \in Devices |-> [s \in Sites |-> IF d = PageDevice /\ t # EmptyTree
                                                     THEN DirOf(t) ELSE NoDir]]
  /\ localSites = [d \in Devices |-> <<>>]
  /\ \E init \in BOOLEAN :
       rows = [s \in {TheSite} |-> [user_id |-> TheUser, is_initialized |-> init]]
  /\ objects = [k \in {} |-> FileData("")]
  /\ entryOrder = NameOrder
  /\ up = IdleUp
  /\ down = IdleDown
  /\ del = IdleDel
  /\ PageIdle

NextTitle ==
  \/ OpenSite
  \/ LoadSiteFound
  \/ LoadSiteDownloaded
  \/ InitPlaygroundOk
  \/ InitPlaygroundFail
  \/ InitRetryOk
  \/ InitRetryFail
  \/ TitleAttempt
  \/ TitleRunOk
  \/ TitleRunFail
  \/ TitleCleared
  \/ ToggleBar

SpecTitle ==
  /\ InitTitle /\ [][NextTitle]_vars
  /\ WF_vars(TitleAttempt)
  /\ WF_vars(TitleRunOk \/ TitleRunFail)
  /\ WF_vars(TitleCleared)

(***************************************************************************)
(* Properties of the file mirror                                           *)
(***************************************************************************)
SiteTree(d) == opfs[d][TheSite].tree
FilesIn(t) == {p \in DOMAIN t : t[p].kind = "file"}
DirsIn(t) == {p \in DOMAIN t : t[p].kind = "dir"}
Range(s) == {s[i] : i \in 1..Len(s)}
KeyOf(relPath) == StorageKey(TheUser, TheSite, relPath)

\* C1: once the delete handler has reported success ('Site deleted'), the
\* site's row is gone, no object is left under {user}/{site}/ at any depth,
\* and the local directory and the local metadata entry are gone.
C1_DeletedEverywhere ==
  del.result = "success" =>
    /\ TheSite \notin DOMAIN rows
    /\ KeysUnder(objects, SitePrefix(TheUser, TheSite)) = {}
    /\ ~opfs[del.dev][TheSite].exists
    /\ TheSite \notin Range(localSites[del.dev])

\* C3: once a file write of an upload has failed, the run has ended in a
\* throw, it wrote exactly the files before the failing one, and neither a
\* later file nor the manifest is in the bucket.
C3_UploadAbortsOnFailure ==
  up.failedAt # 0 =>
    /\ up.pc = "failed"
    /\ Len(up.log) = up.failedAt - 1
    /\ \A i \in 1..Len(up.log) :
         up.log[i] = [key |-> KeyOf(up.files[i].path), manifest |-> FALSE]
    /\ \A j \in up.failedAt..Len(up.files) : KeyOf(up.files[j].path) \notin DOMAIN objects
    /\ \A k \in DOMAIN objects : ~objects[k].manifest

C3_Witness ==
  /\ up.pc = "failed" /\ up.failedAt = 2 /\ Len(up.files) = 3
  /\ KeyOf(up.files[1].path) \in DOMAIN objects

\* C4: a failed fetch of a listed file never makes the download throw (only
\* an unreadable manifest or a failing local write does), and every listed
\* file whose fetch did not fail is written locally with the fetched content.
C4_SkipAndContinue ==
  /\ down.pc = "threw" => (down.localError \/ ~down.gotManifest)
  /\ (down.gotManifest /\ ~down.localError) =>
       \A j \in 1..Len(down.files) :
         (j < down.i /\ down.files[j] \notin down.skipped) =>
            /\ down.files[j] \in DOMAIN SiteTree(down.dev)
            /\ SiteTree(down.dev)[down.files[j]] = FileEntry(objects[KeyOf(down.files[j])])
  /\ (down.pc = "returned" /\ down.gotManifest) => down.i = Len(down.files) + 1

C4_Witness ==
  /\ down.pc = "returned" /\ down.gotManifest
  /\ Len(down.files) = 3 /\ down.skipped = {down.files[2]}
  /\ KeyOf(down.files[2]) \in DOMAIN objects
  /\ down.files[3] \notin DOMAIN down.before.tree
  /\ down.files[3] \in DOMAIN SiteTree(down.dev)

\* C5: after an upload whose writes all succeeded, the manifest in the bucket
\* lists exactly the files of the local directory, nested ones included and
\* each once, and every listed file was written to its key before the
\* manifest was.
C5_ManifestListsWalk ==
  (up.pc = "done" /\ up.manifestOk /\ del.pc = "idle") =>
    LET m == objects[ManifestKey(TheUser, TheSite)]
        t == up.tree
    IN /\ m.manifest
       /\ Range(m.files) = FilesIn(t)
       /\ Len(m.files) = Cardinality(FilesIn(t))
       /\ Range(m.dirs) = DirsIn(t)
       /\ Len(up.log) = Len(m.files) + 1
       /\ \A i \in 1..Len(m.files) :
            up.log[i] = [key |-> KeyOf(m.files[i]), manifest |-> FALSE]
       /\ up.log[Len(up.log)] = [key |-> ManifestKey(TheUser, TheSite), manifest |-> TRUE]
       /\ \A p \in FilesIn(t) :
            p # <<MANIFEST_NAME>> => objects[KeyOf(p)] = t[p].data

C5_Witness ==
  /\ up.pc = "done" /\ up.manifestOk /\ del.pc = "idle"
  /\ <<"a", "c">> \in Range(objects[ManifestKey(TheUser, TheSite)].files)
  /\ <<"b">> \in Range(objects[ManifestKey(TheUser, TheSite)].files)

\* C6: an upload without a failing call, then a download without a failing
\* call into an empty directory, leaves in that directory the uploaded tree.
C6_RoundTrip ==
  ( /\ up.pc = "done" /\ up.manifestOk
    /\ down.pc = "returned" /\ down.gotManifest /\ down.skipped = {}
    /\ down.before.tree = EmptyTree )
  => SiteTree(down.dev) = up.tree

\* C7 as the specification states it: after a download that fetched every listed file, the local
\* directory holds exactly what the manifest lists, with the cloud contents.
C7_ExactlyTheManifest ==
  (down.pc = "returned" /\ down.gotManifest /\ down.skipped = {}) =>
    LET t == SiteTree(down.dev)
    IN /\ DirsIn(t) = Range(down.dirs)
       /\ FilesIn(t) = Range(down.files)
       /\ \A p \in Range(down.files) : t[p].data = objects[KeyOf(p)]

\* C7 as the code has it: after such a download the local directory holds every
\* directory and file the manifest lists, the files with the cloud contents,
\* and, unchanged, every entry it held before that the manifest does not list.
C7_ManifestOverPrevious ==
  (down.pc = "returned" /\ down.gotManifest /\ down.skipped = {}) =>
    LET t == SiteTree(down.dev)
        listed == Range(down.dirs) \cup Range(down.files)
    IN /\ Range(down.dirs) \subseteq DirsIn(t)
       /\ Range(down.files) \subseteq FilesIn(t)
       /\ \A p \in Range(down.files) : t[p].data = objects[KeyOf(p)]
       /\ DOMAIN t = listed \cup DOMAIN down.before.tree
       /\ \A p \in (DOMAIN t) \ listed : t[p] = down.before.tree[p]

C7_Witness ==
  /\ down.pc = "returned" /\ down.gotManifest /\ down.skipped = {}
  /\ <<"b">> \in DOMAIN down.before.tree /\ <<"b">> \notin Range(down.files)
  /\ <<"a", "c">> \in Range(down.files)
  /\ <<"a", "c">> \in DOMAIN down.before.tree
  /\ down.before.tree[<<"a", "c">>] # SiteTree(down.dev)[<<"a", "c">>]

\* C2: the isInitialized flag, in the state of the Site page and in the row
\* of the site, is true only once a sync run of the site has flushed and
\* uploaded successfully.
C2_FalseUntilFirstSync ==
  (site.isInitialized \/ (TheSite \in DOMAIN rows /\ rows[TheSite].is_initialized))
    => hist.firstSync

\* C8: sync runs exclude nothing: a debounce timeout or the initial timeout
\* that is due starts its run, and Back starts the final sync, whatever runs
\* are in progress.
C8_RunsNotExclusive ==
  /\ (0 \in debounceTimers /\ InFlightTotal < MaxInFlight) => ENABLED DebounceFire
  /\ (initialSyncTimer = 0 /\ InFlightTotal < MaxInFlight) => ENABLED InitialFire
  /\ (BarShown /\ playgroundClient /\ site.isInitialized /\ InFlightTotal < MaxInFlight)
       => ENABLED BackWithSync

C8_Witness ==
  /\ InFlight("debounced") >= 1
  /\ InFlight("initial") >= 1
  /\ InFlight("final") >= 1

\* C9: at most one debounce timeout is pending, it is the one the ref names
\* and it is due 5 seconds after the last call of triggerCloudSync; a
\* debounced run starts 5 seconds after the last call and stands for every
\* call made since the run before it.
C9_Debounced ==
  /\ Cardinality(debounceTimers) <= 1
  /\ \A t \in debounceTimers :
       /\ t = syncDebounceRef
       /\ t = DEBOUNCE_SECONDS - hist.sinceCall
  /\ debounceTimers = {} => hist.calls = 0
  /\ hist.ev = "fire" => (hist.sinceCall = DEBOUNCE_SECONDS /\ hist.covered >= 1)

C9_Witness ==
  /\ hist.ev = "fire"
  /\ hist.covered >= 2
  /\ InFlight("debounced") = 1

\* C10 as the specification states it: a failed run of any kind leaves the
\* status 'error', the status is 'synced' only after a run whose steps all
\* succeeded, and Retry is offered whenever the status is 'error'.
C10_AnyFailureShowsError ==
  /\ hist.ev \in {"failed", "failedFinal"} => syncStatus = "error"
  /\ syncStatus = "synced" => hist.runOK
  /\ (mounted /\ syncStatus = "error") => RetryOffered

\* C10 as the code has it: a failed debounced or initial run leaves the
\* status of the mounted page 'error'; the status is 'synced' only after such
\* a run succeeded or after a site already initialized was loaded and
\* started; a page whose status is 'error' shows the site, with Retry in its
\* bar unless the bar is hidden, and Retry sets the debounce timeout of a new
\* run.
C10_StatusOfMountedPage ==
  /\ (hist.ev = "failed" /\ mounted) => syncStatus = "error"
  /\ syncStatus = "synced" => (hist.runOK \/ (hist.foundInit /\ playgroundClient))
  /\ (mounted /\ syncStatus = "error") =>
       /\ MainShown /\ playgroundClient /\ site.isInitialized
       /\ ~isBarHidden => ENABLED handleManualSave
  /\ hist.ev = "retry" => DEBOUNCE_SECONDS \in debounceTimers

C10_Witness ==
  /\ hist.ev = "retry"
  /\ syncStatus = "error"
  /\ debounceTimers = {DEBOUNCE_SECONDS}

\* C11: a failed start of the runtime is followed by one more call of
\* initializePlayground and no third, that call installs WordPress, and the
\* error 'Failed to initialize WordPress...' is set only after both calls
\* have failed.
C11_RetryOnceWithInstall ==
  /\ hist.initCalls <= 2
  /\ initPc = "starting" => hist.initCalls = 1
  /\ initPc = "retrying" => (hist.initCalls = 2 /\ hist.install)
  /\ error = INIT_FAILED => (hist.initCalls = 2 /\ initPc = "idle")

\* C12: a page with a client and an initialized site is left only in the step
\* in which a final sync ends; Back starts that sync at its first awaited
\* call and leaves the page mounted; and the step in which a final sync ends,
\* by its last call returning or by any call throwing, navigates.
C12_NavigateAfterFinalSync ==
  [][ /\ (mounted /\ ~mounted' /\ playgroundClient /\ site.isInitialized)
          => InFlight("final")' = InFlight("final") - 1
      /\ InFlight("final")' > InFlight("final")
          => (mounted' /\ inflight'[<<"final", 1>>] = inflight[<<"final", 1>>] + 1)
      /\ (InFlight("final")' < InFlight("final")) => ~mounted' ]_vars

C12_Witness ==
  /\ hist.ev = "failedFinal"
  /\ ~mounted
  /\ InFlight("final") = 0

\* C13: a restore on a device that has restored the site before copies
\* nothing from the cloud over the local copy.
C13_NoLaterCloudToLocal ==
  down.again => down.copied = {}

\* C16: an upload is not atomic.  A download that runs while an upload is
\* writing its files, or after it stopped at a file, and that finds the
\* manifest of an earlier upload, returns without throwing and leaves on
\* the device, for every listed file whose object is there, what the object
\* holds at that moment, files of the unfinished upload included.
C16_MixedRestoreUndetected ==
  [][ (down' # down /\ up.pc \in {"files", "failed"} /\ down'.gotManifest)
           => /\ ~down'.localError
              /\ \A p \in Range(objects[ManifestKey(TheUser, TheSite)].files) :
                   StorageKey(TheUser, TheSite, p) \in DOMAIN objects
                     => opfs'[down'.dev][TheSite].tree[p]
                          = FileEntry(objects[StorageKey(TheUser, TheSite, p)]) ]_vars

\* A device restored from the first upload restores again during the second:
\* a/c comes from the second upload, b is still what the first one wrote.
C16_Witness ==
  /\ up.round = 2
  /\ down.during \in {"files", "failed"}
  /\ down.gotManifest /\ ~down.localError /\ down.again
  /\ <<"a", "c">> \in down.copied
  /\ LET t == opfs[down.dev][TheSite].tree
     IN /\ t[<<"a", "c">>] = up.tree[<<"a", "c">>]
        /\ t[<<"b">>] # up.tree[<<"b">>]
        /\ t[<<"b">>].kind = "file"

\* C14: the page opens a new site only in the step that follows its
\* successful upsert, with the row of the site (isInitialized false) written;
\* a failed upsert leaves the route and the rows as they are, with no row
\* for the id; a site enters the list only when its row is there.
C14_RowBeforeListedOrOpened ==
  [][ /\ (dash'.route # dash.route /\ dash'.route # <<"/">>)
          => /\ dash.pc = "loadSites"
             /\ dash'.route = <<"site", dash.siteId>>
             /\ dash.siteId \in DOMAIN rows
             /\ rows[dash.siteId] = [user_id |-> TheUser, is_initialized |-> FALSE]
      /\ (dash.pc = "upsert" /\ dash'.pc = "idle")
          => /\ dash'.route = dash.route
             /\ rows' = rows
             /\ dash.siteId \notin DOMAIN rows'
             /\ dash.siteId \notin dash'.sites
      /\ \A id \in dash'.sites \ dash.sites : id \in DOMAIN rows ]_vars

\* A second create whose upsert failed, after a first one that succeeded.
C14_Witness ==
  /\ dash.toast = "Creation failed"
  /\ dash.route = <<"/">>
  /\ dash.siteId \in SiteIds \ DOMAIN rows
  /\ dash.sites # {}

C17_FrameOfSiteCalls ==
  /\ {k \in DOMAIN objects : ~IsPrefix(SitePrefix(TheUser, TheSite), k)} = DOMAIN OtherObjects
  /\ \A k \in DOMAIN OtherObjects : objects[k] = OtherObjects[k]
  /\ DOMAIN rows \ {TheSite} = DOMAIN OtherRows
  /\ \A id \in DOMAIN OtherRows : rows[id] = OtherRows[id]
  /\ \A d \in Devices :
       /\ DOMAIN opfs[d] = {"s1", "s2"}
       /\ opfs[d]["s2"] = DirOf(OtherTree)
       /\ FilterOut(localSites[d], TheSite) = <<"s2">>
       /\ <<"z">> \notin DOMAIN opfs[d][TheSite].tree
  /\ "z" \notin del.listed

\* The site was uploaded with a file in a folder and then deleted: its row
\* and its top-level objects are gone, the neighbours are there.
C17_Witness ==
  /\ up.manifestOk /\ Len(up.log) >= 3
  /\ del.result = "success" /\ del.listed # {}
  /\ TheSite \notin DOMAIN rows
  /\ ManifestKey(TheUser, TheSite) \notin DOMAIN objects
  /\ DOMAIN OtherObjects \subseteq DOMAIN objects

\* C18: a request of a signed-in user changes a sites row only when the row
\* is the user's before and after, and an object only when the first
\* segment of its name is the user's id; what a select answers are the
\* user's own rows and objects.
C18_PerUserIsolation ==
  [][ /\ \A id \in (DOMAIN rows) \cup (DOMAIN rows') :
           (id \notin DOMAIN rows \/ id \notin DOMAIN rows' \/ rows'[id] # rows[id])
             => /\ id \in DOMAIN rows => rows[id].user_id = req'.user
                /\ id \in DOMAIN rows' => rows'[id].user_id = req'.user
      /\ \A k \in (DOMAIN objects) \cup (DOMAIN objects') :
           (k \notin DOMAIN objects \/ k \notin DOMAIN objects' \/ objects'[k] # objects[k])
             => k[1] = req'.user
      /\ req'.op = "select"
           => \A x \in req'.answer :
                IF req'.target = <<"sites">> THEN rows[x].user_id = req'.user
                ELSE x[1] = req'.user ]_vars

\* u2 asked to update the row of u1, and to overwrite an object of u1: the
\* row and the object are as u1 left them.
C18_Witness ==
  /\ req.user = "u2" /\ ~req.allowed
  /\ req.op = "upsert" /\ req.target = <<BUCKET, "u1", "s1", "b">>
  /\ <<"u1", "s1", "b">> \in DOMAIN objects
  /\ \E id \in DOMAIN rows : rows[id].user_id = "u1"
  /\ \E id \in DOMAIN rows : rows[id].user_id = "u2"

C20_StaysDeleted ==
  [][ del.result = "success"
        => /\ TheSite \notin DOMAIN rows => TheSite \notin DOMAIN rows'
           /\ KeysUnder(objects', SitePrefix(TheUser, TheSite))
                \subseteq KeysUnder(objects, SitePrefix(TheUser, TheSite))
           /\ ~opfs[del.dev][TheSite].exists => ~opfs'[del.dev][TheSite].exists ]_vars

(***************************************************************************)
(* Properties of renaming                                                  *)
(***************************************************************************)
\* C21: once a rename has been stored, the metadata upsert of a sync run of
\* a Site page leaves the title of the row as the table held it: it does not
\* write the title the page loaded earlier back.
C21_RenameNotLost ==
  (req.op = "sync" /\ dash.toast = "Site renamed")
    => \A r \in rows : r.id = TheSite => r.title \in req.answer

(***************************************************************************)
(* Properties of leaving the Site page                                     *)
(***************************************************************************)
\* C22: once the Site page is unmounted, no step starts a sync run: no run
\* kind has more runs at its first call after the step than before it.
C22_NoRunAfterLeaving ==
  [][ ~mounted => \A kind \in RunKinds :
                    inflight'[<<kind, 1>>] <= inflight[<<kind, 1>>] ]_vars

(***************************************************************************)
(* Properties of the manifest write                                        *)
(***************************************************************************)
\* C23: an upload that returned without error has written the manifest of
\* its run: the cloud holds, under the manifest key of the site, the manifest
\* that lists the files and directories this run collected.
C23_ReturnsOnlyWithManifest ==
  up.pc = "done" =>
    /\ up.manifestOk
    /\ ManifestKey(TheUser, TheSite) \in DOMAIN objects
    /\ objects[ManifestKey(TheUser, TheSite)] = ManifestData(PathsOf(up.files), up.dirs)

(***************************************************************************)
(* Properties of the order of a delete                                     *)
(***************************************************************************)
\* C24: a delete changes the local side (the metadata list and the site
\* directory of its device) only after the row of the site is gone from the
\* cloud, and a delete whose row delete fails ends with result 'failed',
\* having changed neither the list, nor the directory, nor the cloud.
C24_CloudFirstThenLocal ==
  [][ /\ (del.pc = "row" /\ del'.pc # "row")
           => \/ /\ del'.pc = "list"
                 /\ ~(TheSite \in DOMAIN rows' /\ rows'[TheSite].user_id = TheUser)
                 /\ localSites' = localSites /\ opfs' = opfs
              \/ /\ del'.pc = "done" /\ del'.result = "failed"
                 /\ localSites' = localSites /\ opfs' = opfs
                 /\ rows' = rows /\ objects' = objects
      /\ (del.pc \in {"row", "list", "remove", "local"}
             /\ (localSites' # localSites \/ opfs' # opfs))
           => /\ del.pc = "local"
              /\ ~(TheSite \in DOMAIN rows /\ rows[TheSite].user_id = TheUser) ]_vars

\* A delete of a listed site with a directory has failed at the row: the
\* row, the list entry and the directory are all still there.
C24_Witness ==
  /\ del.pc = "done" /\ del.result = "failed"
  /\ TheSite \in DOMAIN rows
  /\ TheSite \in Range(localSites[del.dev])
  /\ opfs[del.dev][TheSite].exists
  /\ opfs[del.dev][TheSite].tree # EmptyTree

C26_StampedOnlyAfterUpload ==
  [][ \A r \in rows' :
        (\/ r.last_synced_at # 0 /\ \A q \in rows : q.id # r.id
         \/ \E q \in rows : q.id = r.id /\ q.last_synced_at # r.last_synced_at)
          => req'.op = "sync" /\ req'.target[1] = r.id ]_vars

(***************************************************************************)
(* Properties of the Dashboard's initial sync                              *)
(***************************************************************************)
\* C27: of the invocations of loadSites of a mounted Dashboard that have not
\* returned, at most one has called initialCloudSync: a second invocation
\* does not start the initial sync while the first is inside it.
C27_InitialSyncOnce ==
  Cardinality({i \in 1..Len(dash.loads) : dash.loads[i].phase = "initial"}) <= 1

(***************************************************************************)
(* Properties of the site directory                                        *)
(***************************************************************************)
\* C28: every call that opens the directory of a site, getSiteOPFSDirectory
\* included, returns the directory wp-studio, then sites, then the site id,
\* unless it is the check that creates nothing and the directory is missing.
C28_OneSiteDirectory ==
  req.op \in {"getSiteOPFSDirectory", "initializePlayground", "syncMemfsToOPFS"}
    => \/ req.allowed /\ req.answer = {<<<<"wp-studio">>, <<"sites">>, req.target[1]>>}
       \/ /\ req.op = "initializePlayground" /\ ~req.allowed
          /\ <<<<"wp-studio">>, <<"sites">>, req.target[1]>> \notin opfs

(***************************************************************************)
(* Properties of initializeWordPress                                       *)
(***************************************************************************)
\* C29: on a mounted page whose run of initializeWordPress has ended,
\* isInitializing is false and exactly one of the two holds: a client is
\* stored, or the error is the initialization error; and while a run is
\* starting the runtime (first call or retry) the page stores no client.
C29_ClientOrError ==
  /\ (mounted /\ site.loaded /\ initPc = "idle")
       => /\ ~isInitializing
          /\ playgroundClient # (error = INIT_FAILED)
          /\ error \in {"none", INIT_FAILED}
  /\ initPc # "idle" => ~playgroundClient

\* A mounted page whose first call and retry both threw shows the error and
\* stores no client.
C29_Witness ==
  /\ mounted /\ site.loaded /\ initPc = "idle"
  /\ ~isInitializing /\ ~playgroundClient /\ error = INIT_FAILED
  /\ ~isLoading /\ syncInterval = -1

(***************************************************************************)
(* Properties of the title update                                          *)
(***************************************************************************)
\* C30: the title update is attempted at most three times, every attempt
\* after the first follows an attempt that threw, and once a client is
\* stored on the open page the overlay is eventually cleared
\* (isTitleSyncing false), whether an attempt succeeded or all threw.
C30_TitleSyncEnds ==
  /\ [](/\ titleSync.attempt <= 3
        /\ titleSync.attempt <= titleSync.failed + 1
        /\ titleSync.failed <= titleSync.attempt)
  /\ (playgroundClient ~> ~titleSync.isTitleSyncing)

\* All three attempts of an open page threw and the overlay is cleared.
C30_Witness ==
  /\ mounted /\ playgroundClient
  /\ titleSync.attempt = 3 /\ titleSync.failed = 3
  /\ ~titleSync.isTitleSyncing

====
